---- MODULE Spec2Model ----
(***************************************************************************)
(* Chapter-boundary inference of the PDF reader: PDFProcessor              *)
(* (extract_toc, detect_chapters and the heading heuristics),              *)
(* TOCExtractor.extract, ChapterExtractor.process_chapters and             *)
(* PDFHandler.load_chapters; and the paragraph grouping of ImageProcessor  *)
(* (_group_text_blocks, _merge_block_coordinates).                         *)
(*                                                                         *)
(* Text is a sequence of one-character strings.  Scores are kept in half   *)
(* points (2.5 is 5) and confidences as a numerator over ConfDen (1.0 is   *)
(* 40, 0.85 is 34), so that score / 4.0 is exact.                          *)
(***************************************************************************)
EXTENDS Integers, Sequences, FiniteSets, TLC

VARIABLES document, doc, op, outcome, result, calls, candidates, fault,
          image, text_blocks, groups, merged, ip_op, paragraph_chapter, paragraphs,
          ocr_text, citations_found,
          app_pdf, existing_dirs, chapter_list, app_fault, output_paths, saved_files, app_op,
          nav_display, pages_per_view, app_pdf_proc, app_total_pages, current_page,
          nav_op, nav_result, direction,
          disk, citations, current_index, dialog, selected, ct_op, ct_outcome,
          sc_keywords, sc_block, sc_gate, sc_score, sc_confidence, sc_op

\* the variables of the PDF reader and those of the ImageProcessor
pdf_vars == <<document, doc, op, outcome, result, calls, candidates, fault>>

image_vars == <<image, text_blocks, groups, merged, ip_op, paragraph_chapter, paragraphs>>

ocr_vars == <<ocr_text, citations_found>>

app_vars == <<app_pdf, existing_dirs, chapter_list, app_fault, output_paths, saved_files, app_op>>

nav_vars == <<nav_display, pages_per_view, app_pdf_proc, app_total_pages, current_page,
              nav_op, nav_result, direction>>

ct_vars == <<disk, citations, current_index, dialog, selected, ct_op, ct_outcome>>

sc_vars == <<sc_keywords, sc_block, sc_gate, sc_score, sc_confidence, sc_op>>

vars == <<pdf_vars, image_vars, ocr_vars, app_vars, nav_vars, ct_vars, sc_vars>>

\* what the operations of one component leave alone
outside_pdf == <<image_vars, ocr_vars, app_vars, nav_vars, ct_vars, sc_vars>>

outside_image == <<pdf_vars, ocr_vars, app_vars, nav_vars, ct_vars, sc_vars>>

outside_ocr == <<pdf_vars, image_vars, app_vars, nav_vars, ct_vars, sc_vars>>

outside_app == <<pdf_vars, image_vars, ocr_vars, nav_vars, ct_vars, sc_vars>>

outside_nav == <<pdf_vars, image_vars, ocr_vars, app_vars, ct_vars, sc_vars>>

outside_ct == <<pdf_vars, image_vars, ocr_vars, app_vars, nav_vars, sc_vars>>

outside_sc == <<pdf_vars, image_vars, ocr_vars, app_vars, nav_vars, ct_vars>>

(***************************************************************************)
(* Bounds of the explored documents.                                       *)
(***************************************************************************)
MaxPages == 3
MaxToc == 2
MaxChapters == 3
MaxNavPages == 5
MaxPerView == 3
MaxImages == 2

\* the longest list of text blocks grouped
MaxBlocks == 3

\* the longest text OCR reads from a paragraph image
MaxText == 6

(***************************************************************************)
(* Text primitives (Python str semantics).                                 *)
(***************************************************************************)
UpperAlpha ==
  <<"A","B","C","D","E","F","G","H","I","J","K","L","M",
    "N","O","P","Q","R","S","T","U","V","W","X","Y","Z">>

LowerAlpha ==
  <<"a","b","c","d","e","f","g","h","i","j","k","l","m",
    "n","o","p","q","r","s","t","u","v","w","x","y","z">>

Whitespace == {" ", "\n", "\t"}

IsUpperChar(c) == \E i \in 1..26 : UpperAlpha[i] = c

IsLowerChar(c) == \E i \in 1..26 : LowerAlpha[i] = c

ToLowerChar(c) ==
  IF IsUpperChar(c) THEN LowerAlpha[CHOOSE i \in 1..26 : UpperAlpha[i] = c] ELSE c

ToUpperChar(c) ==
  IF IsLowerChar(c) THEN UpperAlpha[CHOOSE i \in 1..26 : LowerAlpha[i] = c] ELSE c

\* str.lower()
Lower(s) == [i \in 1..Len(s) |-> ToLowerChar(s[i])]

\* str.upper()
Upper(s) == [i \in 1..Len(s) |-> ToUpperChar(s[i])]

\* str.isupper(): at least one cased character and no lowercase one
IsUpper(s) ==
  /\ \E i \in 1..Len(s) : IsUpperChar(s[i])
  /\ \A i \in 1..Len(s) : ~IsLowerChar(s[i])

\* str.strip()
Strip(s) ==
  LET keep == {i \in 1..Len(s) : s[i] \notin Whitespace}
  IN  IF keep = {} THEN <<>>
      ELSE LET lo == CHOOSE i \in keep : \A j \in keep : i <= j
               hi == CHOOSE i \in keep : \A j \in keep : j <= i
           IN  SubSeq(s, lo, hi)

\* kw in text
Contains(text, kw) ==
  \E k \in 0..(Len(text) - Len(kw)) :
     \A i \in 1..Len(kw) : text[k + i] = kw[i]

\* sep.join(parts)
RECURSIVE Join(_, _)
Join(sep, parts) ==
  IF parts = <<>> THEN <<>>
  ELSE IF Len(parts) = 1 THEN parts[1]
  ELSE parts[1] \o sep \o Join(sep, Tail(parts))

\* the element of a one-element set: TheOne({e(v) : v \in {x}}) is e(x) with
\* x worked out once
TheOne(S) == CHOOSE x \in S : TRUE

\* concatenation of a sequence of sequences
RECURSIVE Flatten(_)
Flatten(ss) == IF ss = <<>> THEN <<>> ELSE ss[1] \o Flatten(Tail(ss))

(***************************************************************************)
(* ROMAN_NUMERAL_PATTERN, matched as a regular expression: each operator   *)
(* maps the set of offsets already consumed to the offsets reachable       *)
(* after one more piece of the pattern (re.IGNORECASE compares upper-      *)
(* cased characters).                                                      *)
(***************************************************************************)
\* ch{lo,hi}
RegexRepeat(s, P, ch, lo, hi) ==
  {q \in 0..Len(s) :
     \E p \in P : \E k \in lo..hi :
        /\ q = p + k
        /\ \A i \in 1..k : ToUpperChar(s[p + i]) = ch}

\* a literal word
RegexLiteral(s, P, w) ==
  {q \in 0..Len(s) :
     \E p \in P :
        /\ q = p + Len(w)
        /\ \A i \in 1..Len(w) : ToUpperChar(s[p + i]) = w[i]}

\* (nine|four|five?one{0,3})
RegexDigitGroup(s, P, nine, four, five, one) ==
  RegexLiteral(s, P, nine) \cup RegexLiteral(s, P, four)
    \cup RegexRepeat(s, RegexRepeat(s, P, five, 0, 1), one, 0, 3)

\* ^(M{0,4}(CM|CD|D?C{0,3})(XC|XL|L?X{0,3})(IX|IV|V?I{0,3}))$ ; "$" also
\* matches just before a final newline
ROMAN_NUMERAL_PATTERN(s) ==
  \E thousands \in {RegexRepeat(s, {0}, "M", 0, 4)} :
  \E hundreds \in {RegexDigitGroup(s, thousands, <<"C","M">>, <<"C","D">>, "D", "C")} :
  \E tens \in {RegexDigitGroup(s, hundreds, <<"X","C">>, <<"X","L">>, "L", "X")} :
  \E units \in {RegexDigitGroup(s, tens, <<"I","X">>, <<"I","V">>, "V", "I")} :
     \/ Len(s) \in units
     \/ /\ Len(s) >= 1
        /\ s[Len(s)] = "\n"
        /\ (Len(s) - 1) \in units

(***************************************************************************)
(* ProcessingConfig                                                        *)
(***************************************************************************)
chapter_keywords ==
  { <<"C","H","A","P","T","E","R">>, <<"C","h","a","p","t","e","r">>,
    <<"S","E","C","T","I","O","N">>, <<"S","e","c","t","i","o","n">>,
    <<"B","O","O","K">>, <<"B","o","o","k">>,
    <<"P","A","R","T">>, <<"P","a","r","t">>,
    <<"P","r","e","f","a","c","e">>, <<"C","o","n","t","e","n","t","s">>,
    <<"A","P","P","E","N","D","I","X">>, <<"A","p","p","e","n","d","i","x">> }

\* the font size a block has to exceed to pass the gate / to score
GateFontSize == 12
ScoreFontSize == 14

\* the divisor of score -> confidence, and the denominator confidences are kept over
ScoreDivisor == 4
ConfDen == 40

(***************************************************************************)
(* Text blocks as page.get_text("dict") gives them: a block with "lines"   *)
(* is a text block, one without is an image block.  A span carries its     *)
(* text and font size.                                                    *)
(***************************************************************************)
Span(text, size) == [text |-> text, size |-> size]

TextBlock(bbox, lines) == [bbox |-> bbox, hasLines |-> TRUE, lines |-> lines]

ImageBlock(bbox) == [bbox |-> bbox, hasLines |-> FALSE, lines |-> <<>>]

\* " ".join(span["text"] for line in block["lines"] for span in line["spans"]).strip()
BlockText(block) ==
  TheOne({TheOne({Strip(joined) :
                    joined \in {Join(<<" ">>, [i \in 1..Len(spans) |-> spans[i].text])}}) :
            spans \in {Flatten(block.lines)}})

\* span.get("size", 0) of the first span of the first line, when there is one
HasFirstSpan(block) ==
  /\ block.hasLines
  /\ block.lines # <<>>
  /\ block.lines[1] # <<>>

FirstSpanSize(block) == block.lines[1][1].size

\* any(kw in text for kw in self.config.chapter_keywords)
AnyKeywordIn(keywords, text) == \E kw \in keywords : Contains(text, kw)

AnyKeyword(text) == AnyKeywordIn(chapter_keywords, text)

\* _is_chapter_heading under a configuration of keywords
is_chapter_heading_with(keywords, text0, block) ==
  \E text \in {Strip(text0)} :
     IF ROMAN_NUMERAL_PATTERN(text) THEN TRUE
     ELSE IF AnyKeywordIn(keywords, text) THEN TRUE
     ELSE IF HasFirstSpan(block) /\ FirstSpanSize(block) > GateFontSize THEN TRUE
     ELSE FALSE

\* mutant: the font size that passes the gate also scores
calculate_heading_score_from_gate(keywords, text, block) ==
    (IF AnyKeywordIn(keywords, text) THEN 4 ELSE 0)
  + (IF HasFirstSpan(block) /\ FirstSpanSize(block) > GateFontSize THEN 2 ELSE 0)
  + (IF IsUpper(text) THEN 1 ELSE 0)
  + (IF 10 <= Len(text) /\ Len(text) <= 100 THEN 1 ELSE 0)
  + (IF ROMAN_NUMERAL_PATTERN(text) THEN 5 ELSE 0)

\* _calculate_heading_score under a configuration of keywords, in half points
calculate_heading_score_with(keywords, text, block) ==
    (IF AnyKeywordIn(keywords, text) THEN 4 ELSE 0)
  + (IF HasFirstSpan(block) /\ FirstSpanSize(block) > ScoreFontSize THEN 2 ELSE 0)
  + (IF IsUpper(text) THEN 1 ELSE 0)
  + (IF 10 <= Len(text) /\ Len(text) <= 100 THEN 1 ELSE 0)
  + (IF ROMAN_NUMERAL_PATTERN(text) THEN 5 ELSE 0)

\* mutant: a 12pt block passes the gate
is_chapter_heading_from_12(text0, block) ==
  \E text \in {Strip(text0)} :
     IF ROMAN_NUMERAL_PATTERN(text) THEN TRUE
     ELSE IF AnyKeyword(text) THEN TRUE
     ELSE IF HasFirstSpan(block) /\ FirstSpanSize(block) >= GateFontSize THEN TRUE
     ELSE FALSE

is_chapter_heading(text0, block) ==
  \E text \in {Strip(text0)} :
     IF ROMAN_NUMERAL_PATTERN(text) THEN TRUE
     ELSE IF AnyKeyword(text) THEN TRUE
     ELSE IF HasFirstSpan(block) /\ FirstSpanSize(block) > GateFontSize THEN TRUE
     ELSE FALSE

\* mutant: a text of exactly 10 characters earns nothing for its length
calculate_heading_score_over_10(text, block) ==
    (IF AnyKeyword(text) THEN 4 ELSE 0)
  + (IF HasFirstSpan(block) /\ FirstSpanSize(block) > ScoreFontSize THEN 2 ELSE 0)
  + (IF IsUpper(text) THEN 1 ELSE 0)
  + (IF 10 < Len(text) /\ Len(text) <= 100 THEN 1 ELSE 0)
  + (IF ROMAN_NUMERAL_PATTERN(text) THEN 5 ELSE 0)

\* the score in half points
calculate_heading_score(text, block) ==
    (IF AnyKeyword(text) THEN 4 ELSE 0)
  + (IF HasFirstSpan(block) /\ FirstSpanSize(block) > ScoreFontSize THEN 2 ELSE 0)
  + (IF IsUpper(text) THEN 1 ELSE 0)
  + (IF 10 <= Len(text) /\ Len(text) <= 100 THEN 1 ELSE 0)
  + (IF ROMAN_NUMERAL_PATTERN(text) THEN 5 ELSE 0)


(***************************************************************************)
(* The documents explored.  A page is its list of blocks; a document is    *)
(* its pages and its outline (get_toc(): [level, title, 1-based page],     *)
(* page -1 for an entry without a target).                                 *)
(***************************************************************************)
T_CHAPTER == <<"C","H","A","P","T","E","R">>
T_ONE == <<"O","N","E">>
T_xiv == <<"x","i","v">>
T_blank == <<" ">>
T_Intro == <<"I","n","t","r","o">>
T_Chapter1 == <<"C","h","a","p","t","e","r"," ","1">>
T_AppendixA == <<"A","p","p","e","n","d","i","x"," ","A">>
T_seeReferences == <<"s","e","e"," ","R","e","f","e","r","e","n","c","e","s">>
T_plain == <<"p","l","a","i","n"," ","t","e","x","t">>
T_IIII == <<"I","I","I","I">>
T_seeAppendix == <<"s","e","e"," ","a","p","p","e","n","d","i","x">>
T_MMMDCCCLXXXVIII == <<"M","M","M","D","C","C","C","L","X","X","X","V","I","I","I">>

\* "CHAPTER" at 16pt and "ONE" at 10pt on one line
bChapterOne == TextBlock(<<0, 0, 100, 20>>, << <<Span(T_CHAPTER, 16), Span(T_ONE, 10)>> >>)
bPlain == TextBlock(<<0, 30, 100, 40>>, << <<Span(T_plain, 12)>> >>)
bXiv == TextBlock(<<0, 0, 100, 10>>, << <<Span(T_xiv, 10)>> >>)
bImage == ImageBlock(<<0, 20, 100, 60>>)
bChapter1 == TextBlock(<<0, 70, 100, 90>>, << <<Span(T_Chapter1, 13)>> >>)
bReferences == TextBlock(<<0, 0, 100, 10>>, << <<Span(T_seeReferences, 10)>> >>)
bIIII == TextBlock(<<0, 20, 100, 30>>, << <<Span(T_IIII, 10)>> >>)
bAppendix == TextBlock(<<0, 0, 100, 12>>, << <<Span(T_AppendixA, 12)>> >>)
bBlank == TextBlock(<<0, 62, 100, 66>>, << <<Span(T_blank, 10)>> >>)
bSeeAppendix == TextBlock(<<0, 0, 100, 10>>, << <<Span(T_seeAppendix, 10)>> >>)
bIntro == TextBlock(<<0, 100, 100, 113>>, << <<Span(T_Intro, 13)>> >>)
bMMMDCCCLXXXVIII == TextBlock(<<0, 120, 100, 136>>, << <<Span(T_MMMDCCCLXXXVIII, 16)>> >>)

PageEmpty == <<>>
PageHeading == <<bChapterOne, bPlain>>
PageManyHeadings == <<bXiv, bImage, bBlank, bChapter1, bIntro, bMMMDCCCLXXXVIII>>
PageReferences == <<bReferences, bIIII>>
PageAppendix == <<bAppendix>>

PagePool == {PageEmpty, PageHeading, PageManyHeadings, PageReferences, PageAppendix}

\* the pages of the documents that carry an outline
OutlinedPagePool == {PageHeading}


RECURSIVE SeqsUpTo(_, _)
SeqsUpTo(S, n) ==
  IF n = 0 THEN {<<>>}
  ELSE LET shorter == SeqsUpTo(S, n - 1)
       IN  shorter \cup {Append(q, x) : q \in {r \in shorter : Len(r) = n - 1}, x \in S}

TocEntries(n) ==
  {<<1, "Part One", pg>> : pg \in {-1} \cup (1..n)} \cup {<<2, "Chapter 1", 1>>}

PlainDocuments ==
  {[pages |-> ps, toc |-> <<>>] : ps \in SeqsUpTo(PagePool, MaxPages) \ {<<>>}}

OutlinedDocuments ==
  UNION {{[pages |-> ps, toc |-> t] : t \in SeqsUpTo(TocEntries(Len(ps)), MaxToc) \ {<<>>}} :
           ps \in SeqsUpTo(OutlinedPagePool, MaxPages) \ {<<>>}}

\* 60 pages, headings on pages 5, 20 and 45, "appendix" in the text of page 46
ExampleDocument ==
  [pages |-> [i \in 1..60 |->
                IF (i - 1) \in {5, 20, 45} THEN PageHeading
                ELSE IF i - 1 = 46 THEN <<bSeeAppendix>>
                ELSE PageEmpty],
   toc |-> <<>>]

Documents == PlainDocuments \cup OutlinedDocuments \cup {ExampleDocument}


(***************************************************************************)
(* Collaborator failures.  A fault names the PyMuPDF call that raises      *)
(* during an operation: get_toc(), page.get_text("dict") of a page, or     *)
(* page.get_text() of a page.                                              *)
(***************************************************************************)
NoFault == [kind |-> "none", page |-> -1]

OpenFault == [kind |-> "open", page |-> -1]

TocFaults == {[kind |-> "get_toc", page |-> -1]}

\* failures are injected on the first MaxPages pages of a document
FaultPages(d) == {p \in 0..(MaxPages - 1) : p < Len(d.pages)}

BlockFaults(d) == {[kind |-> "get_text_dict", page |-> p] : p \in FaultPages(d)}

TextFaults(d) == {[kind |-> "get_text", page |-> p] : p \in FaultPages(d)}

PixmapFaults(d) == {[kind |-> "get_pixmap", page |-> p] : p \in FaultPages(d)}

NotFound == [kind |-> "not_found", page |-> -1]

Returned(v) == [status |-> "returned", value |-> v]

Raised(e) == [status |-> e, value |-> <<>>]

(***************************************************************************)
(* PDFProcessor                                                            *)
(***************************************************************************)
\* len(self.doc)
total_pages(d) == Len(d.pages)

\* mutant: the next entry's 1-based page is converted to 0-based only
extract_toc_no_gap(opened, d, f) ==
  IF ~opened THEN Raised("PDFProcessingError")
  ELSE IF f.kind = "get_toc" THEN Raised("PDFProcessingError")
  ELSE LET toc == d.toc
       IN  IF toc = <<>> THEN Returned(<<>>)
           ELSE Returned(
             [i \in 1..Len(toc) |->
                [title |-> toc[i][2],
                 start_page |-> toc[i][3] - 1,
                 end_page |-> IF i + 1 <= Len(toc)
                              THEN toc[i + 1][3] - 1
                              ELSE total_pages(d) - 1,
                 level |-> toc[i][1],
                 confidence |-> ConfDen]])

extract_toc(opened, d, f) ==
  IF ~opened THEN Raised("PDFProcessingError")
  ELSE IF f.kind = "get_toc" THEN Raised("PDFProcessingError")
  ELSE LET toc == d.toc
       IN  IF toc = <<>> THEN Returned(<<>>)
           ELSE Returned(
             [i \in 1..Len(toc) |->
                LET end_page == IF i + 1 <= Len(toc)
                                THEN toc[i + 1][3] - 1
                                ELSE total_pages(d)
                IN  [title |-> toc[i][2],
                     start_page |-> toc[i][3] - 1,
                     end_page |-> end_page - 1,
                     level |-> toc[i][1],
                     confidence |-> ConfDen]])

\* page.get_text(): the text of the lines of the page's text blocks,
\* each line ended by a newline
PlainText(page) ==
  Flatten([b \in 1..Len(page) |->
     Flatten([l \in 1..Len(page[b].lines) |->
        Flatten([k \in 1..Len(page[b].lines[l]) |-> page[b].lines[l][k].text])
          \o <<"\n">>])])

\* the block loop on one block: no, or one, candidate
BlockHeading(block) ==
  IF ~block.hasLines THEN <<>>
  ELSE TheOne({IF is_chapter_heading(text, block)
               THEN <<[text |-> text,
                       bbox |-> block.bbox,
                       score |-> calculate_heading_score(text, block)]>>
               ELSE <<>> :
                 text \in {BlockText(block)}})

\* the headings among the blocks of one page, in block order
HeadingBlocks(blocks) == Flatten([b \in 1..Len(blocks) |-> BlockHeading(blocks[b])])

\* what the scan finds on each page the documents are made of, worked out once
KnownPages == PagePool \cup {<<bSeeAppendix>>}

PageHeadings == [page \in KnownPages |-> HeadingBlocks(page)]

PageText == [page \in KnownPages |-> PlainText(page)]

PageTextLower == [page \in KnownPages |-> TheOne({Lower(t) : t \in {PlainText(page)}})]

PageCandidates(page_num, page) ==
  LET found == PageHeadings[page]
  IN  [i \in 1..Len(found) |->
         [page |-> page_num,
          text |-> found[i].text,
          bbox |-> found[i].bbox,
          score |-> found[i].score]]

\* mutant: a sort that reverses the candidates of one page
RECURSIVE SortedByPage_unstable(_)
SortedByPage_unstable(cs) ==
  IF cs = <<>> THEN <<>>
  ELSE LET least == CHOOSE i \in 1..Len(cs) :
                      /\ \A j \in 1..Len(cs) : cs[i].page <= cs[j].page
                      /\ \A j \in (i + 1)..Len(cs) : cs[j].page > cs[i].page
       IN  <<cs[least]>> \o
           SortedByPage_unstable(SubSeq(cs, 1, least - 1) \o SubSeq(cs, least + 1, Len(cs)))

\* sorted(candidates, key=lambda x: x["page"]): a stable sort
RECURSIVE SortedByPage(_)
SortedByPage(cs) ==
  IF cs = <<>> THEN <<>>
  ELSE LET least == CHOOSE i \in 1..Len(cs) :
                      /\ \A j \in 1..Len(cs) : cs[i].page <= cs[j].page
                      /\ \A j \in 1..(i - 1) : cs[j].page > cs[i].page
       IN  <<cs[least]>> \o
           SortedByPage(SubSeq(cs, 1, least - 1) \o SubSeq(cs, least + 1, Len(cs)))

get_chapter_candidates(d, f) ==
  IF f.kind = "get_text_dict" THEN <<>>
  ELSE SortedByPage(
         Flatten([p \in 1..Len(d.pages) |-> PageCandidates(p - 1, d.pages[p])]))

\* mutant: on a processor that was not opened the text is empty
get_page_text_unopened_empty(opened, d, page_num, f) ==
  IF ~opened THEN Returned(<<>>)
  ELSE IF page_num \notin 0..(total_pages(d) - 1) THEN Raised("PDFProcessingError")
  ELSE IF f.kind = "get_text" /\ f.page = page_num
  THEN Raised("PDFProcessingError")
  ELSE Returned(PageText[d.pages[page_num + 1]])

\* ocr_enabled is False by default: the text is page.get_text() as it is
get_page_text(opened, d, page_num, f) ==
  IF ~opened THEN Raised("PDFProcessingError")
  ELSE IF page_num \notin 0..(total_pages(d) - 1) THEN Raised("PDFProcessingError")
  ELSE IF f.kind = "get_text" /\ f.page = page_num
  THEN Raised("PDFProcessingError")
  ELSE Returned(PageText[d.pages[page_num + 1]])

get_total_pages(opened, d) ==
  IF ~opened THEN Raised("PDFProcessingError")
  ELSE Returned(<<total_pages(d)>>)

\* the image is kept as the number of the page it shows
convert_page_to_image(opened, d, page_number, f) ==
  IF ~opened THEN Raised("PDFProcessingError")
  ELSE IF page_number \notin 0..(total_pages(d) - 1) THEN Raised("PDFProcessingError")
  ELSE IF f.kind = "get_pixmap" /\ f.page = page_number
  THEN Raised("PDFProcessingError")
  ELSE Returned(<<[image_of_page |-> page_number]>>)

\* PDFProcessor.__init__: the path must exist; self.doc starts as None
PDFProcessor_init(path_exists) ==
  IF ~path_exists THEN Raised("PDFProcessingError") ELSE Returned(<<>>)

\* the for/else of the last candidate: the first page from j on whose text
\* holds a marker ends the chapter on the page before it
MarkerIn(page_text) ==
  \/ Contains(page_text, <<"a","p","p","e","n","d","i","x">>)
  \/ Contains(page_text, <<"r","e","f","e","r","e","n","c","e","s">>)

\* mutant: without a marker page the chapter ends on page N
LookAhead_past_end(d, j, f) ==
  LET later == {q \in j..(total_pages(d) - 1) :
                  MarkerIn(Lower(PlainText(d.pages[q + 1])))}
      cut == IF later = {} THEN total_pages(d) + 1
             ELSE CHOOSE q \in later : \A r \in later : q <= r
  IN  IF \E q \in j..(total_pages(d) - 1) :
           q <= cut /\ get_page_text(TRUE, d, q, f).status # "returned"
      THEN Raised("PDFProcessingError")
      ELSE Returned(cut - 1)

\* mutant: the chapter ends on the marker page itself
RECURSIVE LookAhead_on_marker(_, _, _)
LookAhead_on_marker(d, j, f) ==
  IF j >= total_pages(d) THEN Returned(total_pages(d) - 1)
  ELSE LET got == get_page_text(TRUE, d, j, f)
       IN  IF got.status # "returned" THEN got
           ELSE IF \E page_text \in {Lower(got.value)} : MarkerIn(page_text)
           THEN Returned(j)
           ELSE LookAhead_on_marker(d, j + 1, f)

RECURSIVE LookAhead(_, _, _)
LookAhead(d, j, f) ==
  IF j >= total_pages(d) THEN Returned(total_pages(d) - 1)
  ELSE LET got == get_page_text(TRUE, d, j, f)
       IN  IF got.status # "returned" THEN got
           ELSE IF \E page_text \in {Lower(got.value)} : MarkerIn(page_text)
           THEN Returned(j - 1)
           ELSE LookAhead(d, j + 1, f)

\* mutant: a chapter never ends before its own page
ChapterEnd_at_least_start(d, cands, i, f) ==
  IF i < Len(cands)
  THEN Returned(IF cands[i + 1].page - 1 < cands[i].page
                THEN cands[i].page
                ELSE cands[i + 1].page - 1)
  ELSE LookAhead(d, cands[i].page, f)

\* mutant: a chapter runs up to and including the next candidate's page
ChapterEnd_through_next(d, cands, i, f) ==
  IF i < Len(cands) THEN Returned(cands[i + 1].page)
  ELSE LookAhead(d, cands[i].page, f)

ChapterEnd(d, cands, i, f) ==
  IF i < Len(cands) THEN Returned(cands[i + 1].page - 1)
  ELSE LookAhead(d, cands[i].page, f)

\* mutant: the candidates of one page are merged into the first of them
detect_chapters_merged(opened, d, f) ==
  IF ~opened THEN Raised("PDFProcessingError")
  ELSE LET all == get_chapter_candidates(d, f)
           keep == {i \in 1..Len(all) : i = 1 \/ all[i - 1].page # all[i].page}
           cands == [k \in 1..Cardinality(keep) |->
                       all[CHOOSE i \in keep : Cardinality({j \in keep : j <= i}) = k]]
       IN  IF cands = <<>> THEN Returned(<<>>)
           ELSE IF \E i \in 1..Len(cands) : ChapterEnd(d, cands, i, f).status # "returned"
           THEN Raised("PDFProcessingError")
           ELSE Returned(
             [i \in 1..Len(cands) |->
                [title |-> cands[i].text,
                 start_page |-> cands[i].page,
                 end_page |-> ChapterEnd(d, cands, i, f).value,
                 confidence |-> (cands[i].score * ConfDen) \div (2 * ScoreDivisor),
                 metadata |-> [bbox |-> cands[i].bbox, score |-> cands[i].score]]])

\* mutant: the confidence is capped at 1.0
detect_chapters_capped(opened, d, f) ==
  IF ~opened THEN Raised("PDFProcessingError")
  ELSE LET cands == get_chapter_candidates(d, f)
       IN  IF cands = <<>> THEN Returned(<<>>)
           ELSE IF \E i \in 1..Len(cands) : ChapterEnd(d, cands, i, f).status # "returned"
           THEN Raised("PDFProcessingError")
           ELSE Returned(
             [i \in 1..Len(cands) |->
                [title |-> cands[i].text,
                 start_page |-> cands[i].page,
                 end_page |-> ChapterEnd(d, cands, i, f).value,
                 confidence |-> IF cands[i].score > 2 * ScoreDivisor THEN ConfDen
                                ELSE (cands[i].score * ConfDen) \div (2 * ScoreDivisor),
                 metadata |-> [bbox |-> cands[i].bbox, score |-> cands[i].score]]])

detect_chapters(opened, d, f) ==
  IF ~opened THEN Raised("PDFProcessingError")
  ELSE LET cands == get_chapter_candidates(d, f)
       IN  IF cands = <<>> THEN Returned(<<>>)
           ELSE IF \E i \in 1..Len(cands) : ChapterEnd(d, cands, i, f).status # "returned"
           THEN Raised("PDFProcessingError")
           ELSE Returned(
             [i \in 1..Len(cands) |->
                [title |-> cands[i].text,
                 start_page |-> cands[i].page,
                 end_page |-> ChapterEnd(d, cands, i, f).value,
                 confidence |-> (cands[i].score * ConfDen) \div (2 * ScoreDivisor),
                 metadata |-> [bbox |-> cands[i].bbox, score |-> cands[i].score]]])


(***************************************************************************)
(* The callers of extract_toc and of the detectors.  Each answers with     *)
(* how it ended, what it returned and the detection methods it invoked,    *)
(* in order.  range(a, b) is kept as its start and stop.                   *)
(***************************************************************************)
Range(a, b) == [start |-> a, stop |-> b]

Answer(status, value, invoked) == [status |-> status, value |-> value, calls |-> invoked]

\* the Chapter objects TOCExtractor.extract builds from extract_toc()'s entries
TocChapters(toc_data) ==
  [i \in 1..Len(toc_data) |->
     LET entry == toc_data[i]
     IN  [title |-> entry.title,
          page_range |-> Range(entry.start_page, entry.end_page + 1),
          confidence |-> entry.confidence,
          metadata |-> [level |-> entry.level]]]

\* the Chapter objects TOCExtractor.extract builds from detect_chapters()'s entries
DetectedChapters(detected) ==
  [i \in 1..Len(detected) |->
     LET entry == detected[i]
     IN  [title |-> entry.title,
          page_range |-> Range(entry.start_page, entry.end_page + 1),
          confidence |-> entry.confidence,
          metadata |-> entry.metadata]]

\* mutant: the detector runs as well when the TOC has entries
TOCExtractor_extract_both(d, f) ==
  LET toc_data == extract_toc(TRUE, d, f)
      detected == detect_chapters(TRUE, d, f)
  IN  IF toc_data.status # "returned"
      THEN Answer("PDFProcessingError", <<>>, <<"extract_toc">>)
      ELSE IF detected.status # "returned"
      THEN Answer("PDFProcessingError", <<>>, <<"extract_toc", "detect_chapters">>)
      ELSE Answer("returned",
                  TocChapters(toc_data.value) \o DetectedChapters(detected.value),
                  <<"extract_toc", "detect_chapters">>)

\* TOCExtractor.extract: its processor was opened by the constructor
TOCExtractor_extract(d, f) ==
  LET toc_data == extract_toc(TRUE, d, f)
  IN  IF toc_data.status # "returned"
      THEN Answer("PDFProcessingError", <<>>, <<"extract_toc">>)
      ELSE IF toc_data.value # <<>>
      THEN Answer("returned", TocChapters(toc_data.value), <<"extract_toc">>)
      ELSE LET detected == detect_chapters(TRUE, d, f)
           IN  IF detected.status # "returned"
               THEN Answer("PDFProcessingError", <<>>, <<"extract_toc", "detect_chapters">>)
               ELSE Answer("returned", DetectedChapters(detected.value),
                           <<"extract_toc", "detect_chapters">>)

\* Chapter.metadata defaults to None; an empty dict is the empty function
NoMetadata == [is_none |-> TRUE]

\* mutant: end_page is the stop of the range
to_dict_stop(chapter) ==
  [title |-> chapter.title,
   start_page |-> chapter.page_range.start,
   end_page |-> chapter.page_range.stop,
   confidence |-> chapter.confidence,
   metadata |-> IF chapter.metadata = NoMetadata THEN <<>> ELSE chapter.metadata]

\* Chapter.to_dict; self.metadata or {} turns None (and {}) into {}
to_dict(chapter) ==
  [title |-> chapter.title,
   start_page |-> chapter.page_range.start,
   end_page |-> chapter.page_range.stop - 1,
   confidence |-> chapter.confidence,
   metadata |-> IF chapter.metadata = NoMetadata THEN <<>> ELSE chapter.metadata]

\* Chapter(title=entry["title"], page_range=range(entry["start_page"],
\* entry["end_page"] + 1), confidence=..., metadata=entry.get("metadata", {}))
Chapter_from_dict(entry) ==
  [title |-> entry.title,
   page_range |-> Range(entry.start_page, entry.end_page + 1),
   confidence |-> entry.confidence,
   metadata |-> entry.metadata]

\* the Chapter objects converted: ranges that are spans, empty (stop = start)
\* or reversed (stop < start), starts below 0 as a TOC entry without a page
\* gives, confidences of 0.625, 1.0 and 1.125
Chapters ==
  {[title |-> "Part One",
    page_range |-> Range(a, b),
    confidence |-> c,
    metadata |-> m] :
      a \in {-2, 0, 1}, b \in {-1, 0, 1, 3}, c \in {25, ConfDen, 45},
      m \in {NoMetadata, <<>>, [level |-> 1]}}

(***************************************************************************)
(* ChapterExtractor (chapter_extractor.py)                                 *)
(***************************************************************************)
\* a chapter being tracked, closed at page `stop`
ClosedChapter(current_chapter, stop) ==
  [title |-> current_chapter.title,
   start_page |-> current_chapter.start_page,
   confidence |-> current_chapter.confidence,
   page_range |-> Range(current_chapter.start_page, stop)]

\* mutant: a chapter is closed on the page before the next one opens
RECURSIVE HeuristicScan_gap(_, _, _, _)
HeuristicScan_gap(d, page_num, f, st) ==
  IF page_num >= total_pages(d)
  THEN Returned(
         IF st.has_current
         THEN Append(st.chapters, ClosedChapter(st.current_chapter, total_pages(d)))
         ELSE st.chapters)
  ELSE LET got == get_page_text(TRUE, d, page_num, f)
       IN  IF got.status # "returned" THEN got
           ELSE IF Contains(got.value, <<"C","h","a","p","t","e","r">>)
           THEN LET closed ==
                      IF st.has_current
                      THEN Append(st.chapters, ClosedChapter(st.current_chapter, page_num - 1))
                      ELSE st.chapters
                IN  HeuristicScan_gap(d, page_num + 1, f,
                      [chapters |-> closed,
                       has_current |-> TRUE,
                       current_chapter |-> [title |-> <<"Chapter", Len(closed) + 1>>,
                                            start_page |-> page_num,
                                            confidence |-> (85 * ConfDen) \div 100]])
           ELSE HeuristicScan_gap(d, page_num + 1, f, st)

\* the page loop from page_num on: st is [chapters, has_current, current_chapter]
RECURSIVE HeuristicScan(_, _, _, _)
HeuristicScan(d, page_num, f, st) ==
  IF page_num >= total_pages(d)
  THEN Returned(
         IF st.has_current
         THEN Append(st.chapters, ClosedChapter(st.current_chapter, total_pages(d)))
         ELSE st.chapters)
  ELSE LET got == get_page_text(TRUE, d, page_num, f)
       IN  IF got.status # "returned" THEN got
           ELSE IF Contains(got.value, <<"C","h","a","p","t","e","r">>)
           THEN LET closed ==
                      IF st.has_current
                      THEN Append(st.chapters, ClosedChapter(st.current_chapter, page_num))
                      ELSE st.chapters
                IN  HeuristicScan(d, page_num + 1, f,
                      [chapters |-> closed,
                       has_current |-> TRUE,
                       current_chapter |-> [title |-> <<"Chapter", Len(closed) + 1>>,
                                            start_page |-> page_num,
                                            confidence |-> (85 * ConfDen) \div 100]])
           ELSE HeuristicScan(d, page_num + 1, f, st)

\* mutant: the chapters of the readable document are returned after a failure
detect_chapters_heuristically_keeps(d, f) ==
  LET scanned == HeuristicScan(d, 0, f,
                   [chapters |-> <<>>, has_current |-> FALSE,
                    current_chapter |-> [title |-> <<>>, start_page |-> 0, confidence |-> 0]])
  IN  IF scanned.status # "returned"
      THEN HeuristicScan(d, 0, NoFault,
             [chapters |-> <<>>, has_current |-> FALSE,
              current_chapter |-> [title |-> <<>>, start_page |-> 0, confidence |-> 0]]).value
      ELSE scanned.value

detect_chapters_heuristically(d, f) ==
  LET scanned == HeuristicScan(d, 0, f,
                   [chapters |-> <<>>, has_current |-> FALSE,
                    current_chapter |-> [title |-> <<>>, start_page |-> 0, confidence |-> 0]])
  IN  IF scanned.status # "returned" THEN <<>> ELSE scanned.value

\* mutant: a failed TOC extraction is taken for a missing TOC
process_chapters_fallback(d, f) ==
  LET toc_chapters == extract_toc(TRUE, d, f)
  IN  IF toc_chapters.status = "returned" /\ toc_chapters.value # <<>>
      THEN Answer("returned",
             [i \in 1..Len(toc_chapters.value) |->
                LET ch == toc_chapters.value[i]
                IN  [title |-> ch.title,
                     page_range |-> Range(ch.start_page, ch.end_page + 1),
                     confidence |-> ConfDen]],
             <<"extract_toc">>)
      ELSE Answer("returned", detect_chapters_heuristically(d, f),
                  <<"extract_toc", "_detect_chapters_heuristically">>)

process_chapters(d, f) ==
  LET toc_chapters == extract_toc(TRUE, d, f)
  IN  IF toc_chapters.status # "returned"
      THEN Answer("ChapterExtractionError", <<>>, <<"extract_toc">>)
      ELSE IF toc_chapters.value # <<>>
      THEN Answer("returned",
             [i \in 1..Len(toc_chapters.value) |->
                LET ch == toc_chapters.value[i]
                IN  [title |-> ch.title,
                     page_range |-> Range(ch.start_page, ch.end_page + 1),
                     confidence |-> ConfDen]],
             <<"extract_toc">>)
      ELSE Answer("returned", detect_chapters_heuristically(d, f),
                  <<"extract_toc", "_detect_chapters_heuristically">>)

(***************************************************************************)
(* PDFHandler.load_chapters (handlers.py): extract_toc() or                *)
(* detect_chapters() on a processor it opens itself.  An exception (of     *)
(* open_pdf, too) is caught and answered with [].  Each raw chapter is a   *)
(* dict of five keys,                                                      *)
(* so unpacking the first one into (title, page_range) raises ValueError,  *)
(* which is caught and answered with [] as well.                           *)
(***************************************************************************)
load_chapters(d, f) ==
  LET toc == extract_toc(TRUE, d, f)
  IN  IF f.kind = "open" THEN Answer("returned", <<>>, <<>>)
      ELSE IF toc.status # "returned" THEN Answer("returned", <<>>, <<"extract_toc">>)
      ELSE IF toc.value # <<>> THEN Answer("returned", <<>>, <<"extract_toc">>)
      ELSE Answer("returned", <<>>, <<"extract_toc", "detect_chapters">>)

(***************************************************************************)
(* The state machine.  document is the PDF file; doc is PDFProcessor.doc   *)
(* of a processor the caller drives by hand ("None" until open_pdf).  op,  *)
(* outcome and result are the last operation, how it ended ("returned" or  *)
(* the exception raised) and what it returned; calls lists the detection   *)
(* methods it invoked, in order; candidates is the list                    *)
(* _get_chapter_candidates gave it; fault is the collaborator failure      *)
(* that struck during it.  Processing is synchronous and single-threaded:   *)
(* an operation starts only once the caller has taken the result of the    *)
(* previous one (op = "none").                                             *)
(***************************************************************************)
\* the other components, not in use
ImageIdle ==
  /\ image = [width |-> 0, height |-> 0]
  /\ text_blocks = <<>>
  /\ groups = <<>>
  /\ merged = <<>>
  /\ ip_op = "none"
  /\ paragraph_chapter = 0
  /\ paragraphs = <<>>

OcrIdle ==
  /\ ocr_text = <<>>
  /\ citations_found = <<>>

\* the application before extract_chapter_images: no file behind pdf_path
AppIdle ==
  /\ app_pdf = [exists |-> FALSE, pages |-> <<>>, toc |-> <<>>]
  /\ existing_dirs = {}
  /\ chapter_list = <<>>
  /\ app_fault = [kind |-> "none", page |-> -1]
  /\ output_paths = <<>>
  /\ saved_files = <<>>
  /\ app_op = "none"

\* PDFDisplayConfig.pages_per_view
DefaultPagesPerView == 2

\* the page display before a PDF is loaded: app.pdf_proc is None
NavIdle ==
  /\ nav_display = "PDFDisplay"
  /\ pages_per_view = DefaultPagesPerView
  /\ app_pdf_proc = [loaded |-> FALSE, pages |-> 0]
  /\ app_total_pages = 0
  /\ current_page = 0
  /\ nav_op = "none"
  /\ nav_result = "none"
  /\ direction = 0

\* no block has been scored
ScoreIdle ==
  /\ sc_keywords = {}
  /\ sc_block = [hasLines |-> FALSE]
  /\ sc_gate = FALSE
  /\ sc_score = 0
  /\ sc_confidence = 0
  /\ sc_op = "none"

NoDialog == [open |-> FALSE]

\* the citation tab as CitationManagerTab.__init__ leaves it, and no folder
\* on disk
CitationIdle ==
  /\ disk = <<>>
  /\ citations = <<>>
  /\ current_index = 0
  /\ dialog = NoDialog
  /\ selected = "none"
  /\ ct_op = "none"
  /\ ct_outcome = "none"

Init ==
  /\ AppIdle
  /\ NavIdle
  /\ CitationIdle
  /\ ScoreIdle
  /\ document \in Documents
  /\ doc = "None"
  /\ op = "none"
  /\ outcome = "none"
  /\ result = <<>>
  /\ calls = <<>>
  /\ candidates = <<>>
  /\ fault = NoFault
  /\ ImageIdle
  /\ OcrIdle

OpenPdf ==
  \E ok \in BOOLEAN :
    /\ op = "none"
    /\ doc' = IF ok THEN "open" ELSE doc
    /\ op' = "open_pdf"
    /\ outcome' = IF ok THEN "returned" ELSE "PDFProcessingError"
    /\ result' = <<>>
    /\ calls' = <<>>
    /\ candidates' = <<>>
    /\ fault' = IF ok THEN NoFault ELSE OpenFault
    /\ UNCHANGED <<document, outside_pdf>>

ExtractToc ==
  \E f \in (IF doc = "open" THEN {NoFault} \cup TocFaults ELSE {NoFault}) :
    LET r == extract_toc(doc = "open", document, f)
    IN  /\ op = "none"
        /\ op' = "extract_toc"
        /\ outcome' = r.status
        /\ result' = r.value
        /\ calls' = <<"extract_toc">>
        /\ candidates' = <<>>
        /\ fault' = f
        /\ UNCHANGED <<document, doc, outside_pdf>>

DetectChapters ==
  \E f \in (IF doc = "open"
            THEN {NoFault} \cup BlockFaults(document) \cup TextFaults(document)
            ELSE {NoFault}) :
    LET r == detect_chapters(doc = "open", document, f)
    IN  /\ op = "none"
        /\ op' = "detect_chapters"
        /\ outcome' = r.status
        /\ result' = r.value
        /\ calls' = <<"detect_chapters">>
        /\ candidates' = IF doc = "open" THEN get_chapter_candidates(document, f) ELSE <<>>
        /\ fault' = f
        /\ UNCHANGED <<document, doc, outside_pdf>>

Range_of(q) == {q[i] : i \in 1..Len(q)}

AllFaults(d) == {NoFault} \cup TocFaults \cup BlockFaults(d) \cup TextFaults(d)

TOCExtractorExtract ==
  \E f \in AllFaults(document) :
    LET r == TOCExtractor_extract(document, f)
        c == r.calls
    IN  /\ op = "none"
        /\ op' = "TOCExtractor.extract"
        /\ outcome' = r.status
        /\ result' = r.value
        /\ calls' = c
        /\ candidates' = IF "detect_chapters" \in Range_of(c) THEN get_chapter_candidates(document, f) ELSE <<>>
        /\ fault' = f
        /\ UNCHANGED <<document, doc, outside_pdf>>

ProcessChapters ==
  \E f \in {NoFault} \cup TocFaults \cup TextFaults(document) :
    LET r == process_chapters(document, f)
    IN  /\ op = "none"
        /\ op' = "process_chapters"
        /\ outcome' = r.status
        /\ result' = r.value
        /\ calls' = r.calls
        /\ candidates' = <<>>
        /\ fault' = f
        /\ UNCHANGED <<document, doc, outside_pdf>>

LoadChapters ==
  \E f \in AllFaults(document) \cup {OpenFault} :
    LET r == load_chapters(document, f)
        c == r.calls
    IN  /\ op = "none"
        /\ op' = "load_chapters"
        /\ outcome' = r.status
        /\ result' = r.value
        /\ calls' = c
        /\ candidates' = IF "detect_chapters" \in Range_of(c) THEN get_chapter_candidates(document, f) ELSE <<>>
        /\ fault' = f
        /\ UNCHANGED <<document, doc, outside_pdf>>

\* PDFProcessor(pdf_path): a new processor replaces the one the caller
\* drives, unless the constructor raises
PDFProcessorInit ==
  \E path_exists \in BOOLEAN :
    LET r == PDFProcessor_init(path_exists)
    IN  /\ op = "none"
        /\ op' = "__init__"
        /\ outcome' = r.status
        /\ result' = r.value
        /\ doc' = IF r.status = "returned" THEN "None" ELSE doc
        /\ calls' = <<>>
        /\ candidates' = <<>>
        /\ fault' = IF path_exists THEN NoFault ELSE NotFound
        /\ UNCHANGED <<document, outside_pdf>>

GetTotalPages ==
  LET r == get_total_pages(doc = "open", document)
  IN  /\ op = "none"
      /\ op' = "get_total_pages"
      /\ outcome' = r.status
      /\ result' = r.value
      /\ calls' = <<>>
      /\ candidates' = <<>>
      /\ fault' = NoFault
      /\ UNCHANGED <<document, doc, outside_pdf>>

GetPageText ==
  \E page_num \in 0..total_pages(document) :
  \E f \in (IF doc = "open" THEN {NoFault} \cup TextFaults(document) ELSE {NoFault}) :
    LET r == get_page_text(doc = "open", document, page_num, f)
    IN  /\ op = "none"
        /\ op' = "get_page_text"
        /\ outcome' = r.status
        /\ result' = IF r.status = "returned" THEN <<r.value>> ELSE <<>>
        /\ calls' = <<>>
        /\ candidates' = <<>>
        /\ fault' = f
        /\ UNCHANGED <<document, doc, outside_pdf>>

ConvertPageToImage ==
  \E page_number \in 0..total_pages(document) :
  \E f \in (IF doc = "open" THEN {NoFault} \cup PixmapFaults(document) ELSE {NoFault}) :
    LET r == convert_page_to_image(doc = "open", document, page_number, f)
    IN  /\ op = "none"
        /\ op' = "convert_page_to_image"
        /\ outcome' = r.status
        /\ result' = r.value
        /\ calls' = <<>>
        /\ candidates' = <<>>
        /\ fault' = f
        /\ UNCHANGED <<document, doc, outside_pdf>>

\* ch.to_dict(), a Chapter built again from the dictionary, and its to_dict()
ChapterToDict ==
  \E chapter \in Chapters :
    LET as_dict == to_dict(chapter)
        rebuilt == Chapter_from_dict(as_dict)
    IN  /\ op = "none"
        /\ op' = "to_dict"
        /\ outcome' = "returned"
        /\ result' = <<[chapter |-> chapter,
                        dict |-> as_dict,
                        rebuilt |-> rebuilt,
                        dict_again |-> to_dict(rebuilt)]>>
        /\ calls' = <<>>
        /\ candidates' = <<>>
        /\ fault' = NoFault
        /\ UNCHANGED <<document, doc, outside_pdf>>

\* the caller takes the result
TakeResult ==
  /\ op # "none"
  /\ op' = "none"
  /\ outcome' = "none"
  /\ result' = <<>>
  /\ calls' = <<>>
  /\ candidates' = <<>>
  /\ fault' = NoFault
  /\ UNCHANGED <<document, doc, outside_pdf>>

Next ==
  \/ PDFProcessorInit
  \/ OpenPdf
  \/ GetTotalPages
  \/ GetPageText
  \/ ConvertPageToImage
  \/ ExtractToc
  \/ DetectChapters
  \/ TOCExtractorExtract
  \/ ProcessChapters
  \/ LoadChapters
  \/ ChapterToDict
  \/ TakeResult

Spec == Init /\ [][Next]_vars


(***************************************************************************)
(* ImageProcessor (image_processor.py).  A block is a layout element with  *)
(* its coordinates (x1, y1, x2, y2); the layout model gives them as        *)
(* floats, kept here in half pixels (10.5 is 21).  The image size, the     *)
(* threshold, the margin and the merged box are in pixels.                 *)
(***************************************************************************)
grouping_threshold == 20

DefaultMargin == 10

LayoutBlock(x1, y1, x2, y2) == [coordinates |-> <<x1, y1, x2, y2>>]

\* tops at 10, 49.5, 50, 110.5 and 170: the gap after bA is 19.5 to bB and
\* 20 to bC, the gap from bC to bD is 19.5 and from bD to bE 40
bA == LayoutBlock(20, 20, 200, 60)
bB == LayoutBlock(21, 99, 181, 140)
bC == LayoutBlock(40, 100, 220, 182)
bD == LayoutBlock(-3, 221, 399, 260)
bE == LayoutBlock(0, 340, 450, 430)

BlockPool == {bA, bB, bC, bD, bE}

Images == {[width |-> 200, height |-> 210], [width |-> 300, height |-> 120]}

\* mutant: the blocks are left in the order they came in
SortedByTop_as_given(blocks) == blocks

\* text_blocks.sort(key=lambda b: b.coordinates[1]): stable, in place
RECURSIVE SortedByTop(_)
SortedByTop(blocks) ==
  IF blocks = <<>> THEN <<>>
  ELSE LET least == CHOOSE i \in 1..Len(blocks) :
                      /\ \A j \in 1..Len(blocks) :
                            blocks[i].coordinates[2] <= blocks[j].coordinates[2]
                      /\ \A j \in 1..(i - 1) :
                            blocks[j].coordinates[2] > blocks[i].coordinates[2]
       IN  <<blocks[least]>> \o
           SortedByTop(SubSeq(blocks, 1, least - 1) \o SubSeq(blocks, least + 1, Len(blocks)))

\* mutant: a gap equal to the threshold does not split
RECURSIVE GroupLoop_split_above(_, _, _, _)
GroupLoop_split_above(blocks, k, done, current_group) ==
  IF k > Len(blocks)
  THEN IF current_group # <<>> THEN Append(done, current_group) ELSE done
  ELSE IF current_group = <<>>
  THEN GroupLoop_split_above(blocks, k + 1, done, <<blocks[k]>>)
  ELSE LET prev_block == current_group[Len(current_group)]
           gap == blocks[k].coordinates[2] - prev_block.coordinates[4]
       IN  IF gap <= 2 * grouping_threshold
           THEN GroupLoop_split_above(blocks, k + 1, done, Append(current_group, blocks[k]))
           ELSE GroupLoop_split_above(blocks, k + 1, Append(done, current_group), <<blocks[k]>>)

\* the for loop from the k-th sorted block on, and the final append
RECURSIVE GroupLoop(_, _, _, _)
GroupLoop(blocks, k, done, current_group) ==
  IF k > Len(blocks)
  THEN IF current_group # <<>> THEN Append(done, current_group) ELSE done
  ELSE IF current_group = <<>>
  THEN GroupLoop(blocks, k + 1, done, <<blocks[k]>>)
  ELSE LET prev_block == current_group[Len(current_group)]
           gap == blocks[k].coordinates[2] - prev_block.coordinates[4]
       IN  IF gap < 2 * grouping_threshold
           THEN GroupLoop(blocks, k + 1, done, Append(current_group, blocks[k]))
           ELSE GroupLoop(blocks, k + 1, Append(done, current_group), <<blocks[k]>>)

\* _group_text_blocks: the list as it leaves it sorted, and the groups
group_text_blocks(blocks) ==
  TheOne({[sorted |-> sorted, groups |-> GroupLoop(sorted, 1, <<>>, <<>>)] :
            sorted \in {SortedByTop(blocks)}})

\* int() of a float: towards zero
ToInt(half_pixels) ==
  IF half_pixels >= 0 THEN half_pixels \div 2 ELSE -((-half_pixels) \div 2)

Minimum(S) == CHOOSE x \in S : \A y \in S : x <= y

Maximum(S) == CHOOSE x \in S : \A y \in S : x >= y

\* mutant: the box is not clipped to the image
merge_block_coordinates_unclipped(blocks, img, margin) ==
  IF blocks = <<>> THEN Raised("ValueError")
  ELSE LET xs == UNION {{blocks[i].coordinates[1], blocks[i].coordinates[3]} :
                          i \in 1..Len(blocks)}
           ys == UNION {{blocks[i].coordinates[2], blocks[i].coordinates[4]} :
                          i \in 1..Len(blocks)}
           merged_box == <<ToInt(Minimum(xs)), ToInt(Minimum(ys)),
                           ToInt(Maximum(xs)), ToInt(Maximum(ys))>>
       IN  Returned(<<Maximum({0, merged_box[1] - margin}),
                      Maximum({0, merged_box[2] - margin}),
                      merged_box[3] + margin,
                      merged_box[4] + margin>>)

\* _merge_block_coordinates; min() of an empty list raises ValueError
merge_block_coordinates(blocks, img, margin) ==
  IF blocks = <<>> THEN Raised("ValueError")
  ELSE LET xs == UNION {{blocks[i].coordinates[1], blocks[i].coordinates[3]} :
                          i \in 1..Len(blocks)}
           ys == UNION {{blocks[i].coordinates[2], blocks[i].coordinates[4]} :
                          i \in 1..Len(blocks)}
           merged_box == <<ToInt(Minimum(xs)), ToInt(Minimum(ys)),
                           ToInt(Maximum(xs)), ToInt(Maximum(ys))>>
       IN  Returned(<<Maximum({0, merged_box[1] - margin}),
                      Maximum({0, merged_box[2] - margin}),
                      Minimum({img.width, merged_box[3] + margin}),
                      Minimum({img.height, merged_box[4] + margin})>>)

\* what the layout model detects: elements with a type; only "Text" counts
Element(type, block) == [type |-> type, block |-> block]

ElementPool == {Element("Text", b) : b \in BlockPool} \cup {Element("Figure", bC)}

FilterText(layout) ==
  Flatten([i \in 1..Len(layout) |->
             IF layout[i].type = "Text" THEN <<layout[i].block>> ELSE <<>>])

\* f"chapter{chapter}_paragraph_{idx}.png"
Filename(chapter_number, idx) == <<"chapter", chapter_number, "_paragraph_", idx, ".png">>

\* mutant: the paragraphs are numbered from 0
detect_paragraphs_with_metadata_from_0(img, layout, chapter_number) ==
  TheOne({[sorted |-> grouped.sorted,
           groups |-> grouped.groups,
           paragraphs |->
             [idx \in 1..Len(grouped.groups) |->
                [bbox |-> merge_block_coordinates(grouped.groups[idx], img, DefaultMargin).value,
                 filename |-> Filename(chapter_number, idx - 1)]]] :
            grouped \in {group_text_blocks(FilterText(layout))}})

\* detect_paragraphs_with_metadata: of a paragraph its box and its filename
\* are kept (its text and crop are what OCR and PIL make of the box)
detect_paragraphs_with_metadata(img, layout, chapter_number) ==
  TheOne({[sorted |-> grouped.sorted,
           groups |-> grouped.groups,
           paragraphs |->
             [idx \in 1..Len(grouped.groups) |->
                [bbox |-> merge_block_coordinates(grouped.groups[idx], img, DefaultMargin).value,
                 filename |-> Filename(chapter_number, idx)]]] :
            grouped \in {group_text_blocks(FilterText(layout))}})

NoDocument == [pages |-> <<>>, toc |-> <<>>]

PdfIdle ==
  /\ document = NoDocument
  /\ doc = "None"
  /\ op = "none"
  /\ outcome = "none"
  /\ result = <<>>
  /\ calls = <<>>
  /\ candidates = <<>>
  /\ fault = NoFault

InitImage ==
  /\ image \in Images
  /\ text_blocks \in SeqsUpTo(BlockPool, MaxBlocks)
  /\ groups = <<>>
  /\ merged = <<>>
  /\ ip_op = "none"
  /\ paragraph_chapter = 0
  /\ paragraphs = <<>>
  /\ PdfIdle
  /\ OcrIdle
  /\ AppIdle
  /\ NavIdle
  /\ CitationIdle
  /\ ScoreIdle

GroupTextBlocks ==
  LET r == group_text_blocks(text_blocks)
  IN  /\ ip_op = "none"
      /\ text_blocks' = r.sorted
      /\ groups' = r.groups
      /\ merged' = <<>>
      /\ ip_op' = "_group_text_blocks"
      /\ UNCHANGED <<image, paragraph_chapter, paragraphs, outside_image>>

\* as detect_paragraphs_with_metadata calls it: on a group, with margin=10
MergeBlockCoordinates ==
  \E g \in 1..Len(groups) :
    LET r == merge_block_coordinates(groups[g], image, DefaultMargin)
    IN  /\ ip_op # "none"
        /\ merged' = [group |-> g, status |-> r.status, box |-> r.value]
        /\ ip_op' = "_merge_block_coordinates"
        /\ UNCHANGED <<image, text_blocks, groups, paragraph_chapter, paragraphs, outside_image>>

\* one invocation, on what the layout model detects in the image
DetectParagraphsWithMetadata ==
  \E chapter_number \in 1..2 :
  \E layout \in SeqsUpTo(ElementPool, MaxBlocks) :
    LET r == detect_paragraphs_with_metadata(image, layout, chapter_number)
    IN  /\ text_blocks' = r.sorted
        /\ groups' = r.groups
        /\ paragraphs' = r.paragraphs
        /\ paragraph_chapter' = chapter_number
        /\ merged' = <<>>
        /\ ip_op' = "detect_paragraphs_with_metadata"
        /\ UNCHANGED <<image, outside_image>>

NextImage ==
  \/ GroupTextBlocks
  \/ MergeBlockCoordinates
  \/ DetectParagraphsWithMetadata

SpecImage == InitImage /\ [][NextImage]_vars


(***************************************************************************)
(* extract_citations_from_paragraph (ocr_processor.py).  ocr_text is what  *)
(* Tesseract reads from the paragraph image.                               *)
(***************************************************************************)
Quote == "\""

OcrTexts == SeqsUpTo({Quote, "a", " "}, MaxText)

\* the first double quote of s from position i on, 0 when there is none
NextQuote(s, i) ==
  IF \E j \in i..Len(s) : s[j] = Quote
  THEN CHOOSE j \in i..Len(s) : s[j] = Quote /\ \A k \in i..(j - 1) : s[k] # Quote
  ELSE 0

\* mutant: the pattern "([^"]*)" also takes an empty pair of quotes
RECURSIVE FindAll_empty_too(_, _)
FindAll_empty_too(s, i) ==
  IF i > Len(s) THEN <<>>
  ELSE IF s[i] = Quote /\ NextQuote(s, i + 1) > 0
  THEN <<SubSeq(s, i + 1, NextQuote(s, i + 1) - 1)>>
         \o FindAll_empty_too(s, NextQuote(s, i + 1) + 1)
  ELSE FindAll_empty_too(s, i + 1)

\* re.findall(r'"([^"]+)"', text) scanning from position i: a match starts
\* at a quote followed by one or more other characters and a quote, and the
\* scan goes on after it; elsewhere it moves one character on
RECURSIVE FindAll(_, _)
FindAll(s, i) ==
  IF i > Len(s) THEN <<>>
  ELSE IF s[i] = Quote /\ NextQuote(s, i + 1) > i + 1
  THEN <<SubSeq(s, i + 1, NextQuote(s, i + 1) - 1)>>
         \o FindAll(s, NextQuote(s, i + 1) + 1)
  ELSE FindAll(s, i + 1)

\* confidences over ConfDen: 0.9 and 0.95
extract_citations_from_paragraph(text) ==
  TheOne({[full_text |-> text,
           quotes |-> [q \in 1..Len(found_quotes) |->
                         [quote_text |-> found_quotes[q],
                          confidence |-> (9 * ConfDen) \div 10]],
           context |-> <<>>,
           ocr_confidence |-> (95 * ConfDen) \div 100] :
            found_quotes \in {FindAll(text, 1)}})

InitOcr ==
  /\ ocr_text \in OcrTexts
  /\ citations_found = <<>>
  /\ PdfIdle
  /\ ImageIdle
  /\ AppIdle
  /\ NavIdle
  /\ CitationIdle
  /\ ScoreIdle

ExtractCitationsFromParagraph ==
  /\ citations_found' = <<extract_citations_from_paragraph(ocr_text)>>
  /\ UNCHANGED <<ocr_text, outside_ocr>>

\* another paragraph image is read
NextParagraphImage ==
  /\ citations_found # <<>>
  /\ ocr_text' \in OcrTexts
  /\ citations_found' = <<>>
  /\ UNCHANGED outside_ocr

NextOcr ==
  \/ ExtractCitationsFromParagraph
  \/ NextParagraphImage

SpecOcr == InitOcr /\ [][NextOcr]_vars


(***************************************************************************)
(* App.extract_chapter_images (app.py) and ChapterExtractor.extract        *)
(* (chapter_extractor.py).  A path is the sequence of its components, a    *)
(* component the sequence of the pieces it is formatted from.              *)
(***************************************************************************)
\* AppConfig.output_dir and ChapterConfig.output_dir
AppOutputDir == <<"output">>

CHAPTERS_DIR == <<"chapters">>

\* Path(self.config.output_dir) / f"chapter_{i+1}.png", i counted from 0
OutputPath(i) == Append(AppOutputDir, <<"chapter_", i + 1, ".png">>)

\* f"chapter_{chapter_index}.png" of a path: str() joins its components
\* with "/", so the name formatted from it is a relative path again
ChapterFilename(chapter_index) ==
  IF Len(chapter_index) = 1
  THEN << <<"chapter_">> \o chapter_index[1] \o <<".png">> >>
  ELSE << <<"chapter_">> \o chapter_index[1] >>
       \o SubSeq(chapter_index, 2, Len(chapter_index) - 1)
       \o << chapter_index[Len(chapter_index)] \o <<".png">> >>

Parent(path) == SubSeq(path, 1, Len(path) - 1)

\* ChapterExtractor.__init__: the file must exist and open
ChapterExtractor_init(pdf, f) ==
  IF ~pdf.exists THEN Raised("ChapterExtractionError")
  ELSE IF f.kind = "open" THEN Raised("ChapterExtractionError")
  ELSE Returned(<<>>)

\* for page_num in selected_range: convert_page_to_image(page_num)
RECURSIVE ConvertPages(_, _, _, _)
ConvertPages(pdf, page_num, stop, f) ==
  IF page_num >= stop THEN Returned(<<>>)
  ELSE LET image_of == convert_page_to_image(TRUE, pdf, page_num, f)
           rest == ConvertPages(pdf, page_num + 1, stop, f)
       IN  IF image_of.status # "returned" THEN image_of
           ELSE IF rest.status # "returned" THEN rest
           ELSE Returned(image_of.value \o rest.value)

\* ChapterExtractor.extract: output_dir.mkdir, the page images, the merge,
\* and merged_image.save, which needs the directory of the file to exist
ChapterExtractor_extract(pdf, selected_range, chapter_index, f, dirs) ==
  LET page_images == ConvertPages(pdf, selected_range.start, selected_range.stop, f)
      output_path == CHAPTERS_DIR \o ChapterFilename(chapter_index)
  IN  IF page_images.status # "returned" THEN Raised("ChapterExtractionError")
      ELSE IF page_images.value = <<>> THEN Raised("ChapterExtractionError")
      ELSE IF Parent(output_path) \notin (dirs \cup {CHAPTERS_DIR})
      THEN Raised("ChapterExtractionError")
      ELSE Returned(output_path)

\* mutant: the first chapter that fails ends the loop
RECURSIVE ExtractLoop_until_failure(_, _, _, _, _, _)
ExtractLoop_until_failure(pdf, chapters, i, f, dirs, st) ==
  IF i >= Len(chapters) THEN st
  ELSE LET made == ChapterExtractor_init(pdf, f)
           extracted == ChapterExtractor_extract(pdf, chapters[i + 1].page_range,
                                                 OutputPath(i), f, dirs)
       IN  IF made.status # "returned" \/ extracted.status # "returned"
           THEN st
           ELSE ExtractLoop_until_failure(pdf, chapters, i + 1, f, dirs,
                  [output_paths |-> Append(st.output_paths, OutputPath(i)),
                   saved |-> Append(st.saved, [chapter |-> i + 1, file |-> extracted.value])])

\* for i, chapter in enumerate(chapters): the try/except around one chapter
RECURSIVE ExtractLoop(_, _, _, _, _, _)
ExtractLoop(pdf, chapters, i, f, dirs, st) ==
  IF i >= Len(chapters) THEN st
  ELSE LET made == ChapterExtractor_init(pdf, f)
           extracted == ChapterExtractor_extract(pdf, chapters[i + 1].page_range,
                                                 OutputPath(i), f, dirs)
       IN  IF made.status # "returned" \/ extracted.status # "returned"
           THEN ExtractLoop(pdf, chapters, i + 1, f, dirs, st)
           ELSE ExtractLoop(pdf, chapters, i + 1, f, dirs,
                  [output_paths |-> Append(st.output_paths, OutputPath(i)),
                   saved |-> Append(st.saved, [chapter |-> i + 1, file |-> extracted.value])])

\* extract_chapter_images: an empty list is an error that is shown and
\* answered with []
extract_chapter_images(pdf, chapters, f, dirs) ==
  IF chapters = <<>> THEN [output_paths |-> <<>>, saved |-> <<>>]
  ELSE ExtractLoop(pdf, chapters, 0, f, dirs, [output_paths |-> <<>>, saved |-> <<>>])

\* the page ranges of the chapters handed in: one page, none, two pages,
\* and one that runs past the last page
AppRanges == {Range(0, 1), Range(1, 1), Range(0, 2), Range(1, MaxPages + 1)}

AppPdfs ==
  {[exists |-> e, pages |-> [i \in 1..n |-> PageEmpty], toc |-> <<>>] :
     e \in BOOLEAN, n \in 1..MaxPages}

\* the directory the extractor's files would go to
NestedDir == Parent(CHAPTERS_DIR \o ChapterFilename(OutputPath(0)))

InitApp ==
  /\ app_pdf \in AppPdfs
  /\ existing_dirs \in {{}, {NestedDir}}
  /\ chapter_list = <<>>
  /\ app_fault = NoFault
  /\ output_paths = <<>>
  /\ saved_files = <<>>
  /\ app_op = "none"
  /\ PdfIdle
  /\ ImageIdle
  /\ OcrIdle
  /\ NavIdle
  /\ CitationIdle
  /\ ScoreIdle

ExtractChapterImages ==
  \E chapters \in SeqsUpTo({[page_range |-> r] : r \in AppRanges}, MaxChapters),
     f \in {NoFault, OpenFault} \cup PixmapFaults(app_pdf) :
    LET r == extract_chapter_images(app_pdf, chapters, f, existing_dirs)
    IN  /\ chapter_list' = chapters
        /\ app_fault' = f
        /\ output_paths' = r.output_paths
        /\ saved_files' = r.saved
        /\ existing_dirs' =
              IF chapters # <<>> /\ ChapterExtractor_init(app_pdf, f).status = "returned"
              THEN existing_dirs \cup {CHAPTERS_DIR}
              ELSE existing_dirs
        /\ app_op' = "extract_chapter_images"
        /\ UNCHANGED <<app_pdf, outside_app>>

NextApp == ExtractChapterImages

SpecApp == InitApp /\ [][NextApp]_vars


(***************************************************************************)
(* PDFDisplay (pdf_loader.py) and the navigation of PDFHandler             *)
(* (handlers.py) on the application's current_page.  nav_display is the    *)
(* class whose navigate_pages the buttons call; PDFHandler shows two pages *)
(* and is loaded through the default PDFDisplay.                           *)
(***************************************************************************)
\* the pages PDFHandler.navigate_pages moves by
HandlerStep == 2

\* what the file dialog of load_pdf ends with
Selections ==
  {[kind |-> "cancelled", pages |-> 0], [kind |-> "not_found", pages |-> 0],
   [kind |-> "open_fails", pages |-> 0]}
  \cup {[kind |-> "pdf", pages |-> n] : n \in 1..MaxNavPages}

\* PDFDisplay.load_pdf: nothing of the application changes unless the
\* loader returned an opened processor
load_pdf(app, selection) ==
  IF selection.kind = "cancelled" THEN [app |-> app, result |-> "cancelled"]
  ELSE IF selection.kind # "pdf" THEN [app |-> app, result |-> "failed"]
  ELSE [app |-> [pdf_proc |-> [loaded |-> TRUE, pages |-> selection.pages],
                 total_pages |-> selection.pages,
                 current_page |-> 0],
        result |-> "loaded"]

\* mutant: the page after the last one is accepted
navigate_pages_through_end(display, per_view, app, d) ==
  IF ~app.pdf_proc.loaded THEN [app |-> app, result |-> "no pdf"]
  ELSE LET new_page == app.current_page +
                         d * (IF display = "PDFDisplay" THEN per_view ELSE HandlerStep)
           total == IF display = "PDFDisplay" THEN app.total_pages ELSE app.pdf_proc.pages
       IN  IF 0 <= new_page /\ new_page <= total
           THEN [app |-> [app EXCEPT !.current_page = new_page], result |-> "moved"]
           ELSE [app |-> app, result |-> "boundary"]

\* PDFDisplay.navigate_pages and PDFHandler.navigate_pages
navigate_pages(display, per_view, app, d) ==
  IF ~app.pdf_proc.loaded THEN [app |-> app, result |-> "no pdf"]
  ELSE LET new_page == app.current_page +
                         d * (IF display = "PDFDisplay" THEN per_view ELSE HandlerStep)
           total == IF display = "PDFDisplay" THEN app.total_pages ELSE app.pdf_proc.pages
       IN  IF 0 <= new_page /\ new_page < total
           THEN [app |-> [app EXCEPT !.current_page = new_page], result |-> "moved"]
           ELSE [app |-> app, result |-> "boundary"]

\* the fields of the application the display works on
TheApp ==
  [pdf_proc |-> app_pdf_proc, total_pages |-> app_total_pages, current_page |-> current_page]

InitNav ==
  /\ \/ nav_display = "PDFDisplay" /\ pages_per_view \in 1..MaxPerView
     \/ nav_display = "PDFHandler" /\ pages_per_view = DefaultPagesPerView
  /\ app_pdf_proc = [loaded |-> FALSE, pages |-> 0]
  /\ app_total_pages = 0
  /\ current_page = 0
  /\ nav_op = "none"
  /\ nav_result = "none"
  /\ direction = 0
  /\ PdfIdle
  /\ ImageIdle
  /\ OcrIdle
  /\ AppIdle
  /\ CitationIdle
  /\ ScoreIdle

LoadPdf ==
  \E selection \in Selections :
    LET r == load_pdf(TheApp, selection)
    IN  /\ app_pdf_proc' = r.app.pdf_proc
        /\ app_total_pages' = r.app.total_pages
        /\ current_page' = r.app.current_page
        /\ nav_op' = "load_pdf"
        /\ nav_result' = r.result
        /\ direction' = 0
        /\ UNCHANGED <<nav_display, pages_per_view, outside_nav>>

NavigatePages ==
  \E d \in {-1, 1} :
    LET r == navigate_pages(nav_display, pages_per_view, TheApp, d)
    IN  /\ app_pdf_proc' = r.app.pdf_proc
        /\ app_total_pages' = r.app.total_pages
        /\ current_page' = r.app.current_page
        /\ nav_op' = "navigate_pages"
        /\ nav_result' = r.result
        /\ direction' = d
        /\ UNCHANGED <<nav_display, pages_per_view, outside_nav>>

NextNav ==
  \/ LoadPdf
  \/ NavigatePages

SpecNav == InitNav /\ [][NextNav]_vars


(***************************************************************************)
(* CitationManagerTab, Citation and AnnotationDialog (widgets_t3.py).      *)
(* disk maps a folder to the .json files of its images, in the order       *)
(* iterdir() lists the images; the i-th image of folder F has the path     *)
(* <<F, i>>.  A Path is [path |-> p], str() of it is p.  current_index     *)
(* counts from 0 as in the code.  The dialog is not modal: the tab keeps   *)
(* working while it is open.                                               *)
(***************************************************************************)
Folders == {"A", "B"}

Path(p) == [path |-> p]

\* what the .json next to an image can be: missing, not JSON, or a dict
Absent == [kind |-> "absent"]

Invalid == [kind |-> "invalid"]

Json(data) == [kind |-> "json", data |-> data]

\* the annotations a user types into the dialog ({} and {"note": "a"})
AnnotationPool == {<<>>, [note |-> "a"]}

\* Citation(image_path=img_path, **data): the keywords must be exactly the
\* other five fields of the dataclass
Citation_fields == {"text", "context", "confidence", "annotations", "metadata"}

Citation_new(image_path, data) ==
  IF DOMAIN data = Citation_fields
  THEN Returned([image_path |-> image_path, text |-> data.text, context |-> data.context,
                 confidence |-> data.confidence, annotations |-> data.annotations,
                 metadata |-> data.metadata])
  ELSE Raised("TypeError")

\* Citation.to_dict
Citation_to_dict(citation) ==
  [image_path |-> citation.image_path.path,
   text |-> citation.text,
   context |-> citation.context,
   confidence |-> citation.confidence,
   annotations |-> citation.annotations,
   metadata |-> citation.metadata]

\* the data _load_citations makes up for an image without a .json
DefaultData(img_path) ==
  [text |-> <<>>, context |-> <<>>, confidence |-> 0, annotations |-> <<>>,
   metadata |-> [filename |-> img_path.path[2]]]

\* the loop over image_files from the i-th on; loaded is self.citations
RECURSIVE LoadLoop(_, _, _, _)
LoadLoop(folder, files, i, loaded) ==
  IF i > Len(files) THEN Returned(loaded)
  ELSE IF files[i] = Invalid THEN [status |-> "JSONDecodeError", value |-> loaded]
  ELSE LET img_path == Path(<<folder, i>>)
           data == IF files[i] = Absent THEN DefaultData(img_path) ELSE files[i].data
           citation == Citation_new(img_path, data)
       IN  IF citation.status # "returned"
           THEN [status |-> citation.status, value |-> loaded]
           ELSE LoadLoop(folder, files, i + 1, Append(loaded, citation.value))

\* _load_citations: tab is [citations, current_index, dialog]; a dialog
\* that is open keeps its citation, which is no longer in the new list
load_citations(tab, files_on_disk, selection) ==
  IF selection = "cancelled" THEN [tab |-> tab, outcome |-> "cancelled"]
  ELSE IF files_on_disk[selection] = <<>> THEN [tab |-> tab, outcome |-> "ValueError"]
  ELSE LET loaded == LoadLoop(selection, files_on_disk[selection], 1, <<>>)
           detached == IF tab.dialog.open
                       THEN [tab.dialog EXCEPT !.origin = -1]
                       ELSE tab.dialog
       IN  IF loaded.status # "returned"
           THEN [tab |-> [citations |-> loaded.value,
                          current_index |-> tab.current_index,
                          dialog |-> detached],
                 outcome |-> loaded.status]
           ELSE [tab |-> [citations |-> loaded.value,
                          current_index |-> 0,
                          dialog |-> detached],
                 outcome |-> "loaded"]

\* citation = self.citations[self.current_index] of a non-empty list
display_current_citation(tab) ==
  IF tab.citations = <<>> THEN "nothing"
  ELSE IF tab.current_index >= Len(tab.citations) THEN "IndexError"
  ELSE "displayed"

\* _prev_citation
prev_citation(tab) ==
  IF tab.citations # <<>> /\ tab.current_index > 0
  THEN LET moved == [tab EXCEPT !.current_index = tab.current_index - 1]
       IN  [tab |-> moved, outcome |-> display_current_citation(moved)]
  ELSE [tab |-> tab, outcome |-> "nothing"]

\* _next_citation
next_citation(tab) ==
  IF tab.citations # <<>> /\ tab.current_index < Len(tab.citations) - 1
  THEN LET moved == [tab EXCEPT !.current_index = tab.current_index + 1]
       IN  [tab |-> moved, outcome |-> display_current_citation(moved)]
  ELSE [tab |-> tab, outcome |-> "nothing"]

\* _annotate_current: the dialog gets the citation object at current_index
annotate_current(tab) ==
  IF tab.citations = <<>> THEN [tab |-> tab, outcome |-> "nothing"]
  ELSE IF tab.current_index >= Len(tab.citations) THEN [tab |-> tab, outcome |-> "IndexError"]
  ELSE [tab |-> [tab EXCEPT !.dialog = [open |-> TRUE,
                                        citation |-> tab.citations[tab.current_index + 1],
                                        origin |-> tab.current_index]],
        outcome |-> "opened"]

\* AnnotationDialog._save with annotations that parse, update_citation and
\* _save_citation: the citation object is changed in place, put at
\* current_index, and its to_dict() written next to its image
dialog_save(tab, files_on_disk, annotations) ==
  LET updated == [tab.dialog.citation EXCEPT !.annotations = annotations]
      in_place == IF tab.dialog.origin >= 0
                  THEN [tab.citations EXCEPT ![tab.dialog.origin + 1] = updated]
                  ELSE tab.citations
      place == updated.image_path.path
  IN  IF tab.current_index >= Len(in_place)
      THEN [tab |-> [tab EXCEPT !.citations = in_place,
                                !.dialog = [tab.dialog EXCEPT !.citation = updated]],
            disk |-> files_on_disk,
            outcome |-> "IndexError"]
      ELSE [tab |-> [tab EXCEPT !.citations = [in_place EXCEPT ![tab.current_index + 1] = updated],
                                !.dialog = NoDialog],
            disk |-> [files_on_disk EXCEPT ![place[1]][place[2]] = Json(Citation_to_dict(updated))],
            outcome |-> "saved"]

TheTab == [citations |-> citations, current_index |-> current_index, dialog |-> dialog]

InitCitations ==
  /\ disk \in [Folders -> SeqsUpTo({Absent, Invalid}, MaxImages)]
  /\ citations = <<>>
  /\ current_index = 0
  /\ dialog = NoDialog
  /\ selected = "none"
  /\ ct_op = "none"
  /\ ct_outcome = "none"
  /\ PdfIdle
  /\ ImageIdle
  /\ OcrIdle
  /\ AppIdle
  /\ NavIdle
  /\ ScoreIdle

LoadCitations ==
  \E selection \in Folders \cup {"cancelled"} :
    LET r == load_citations(TheTab, disk, selection)
    IN  /\ citations' = r.tab.citations
        /\ current_index' = r.tab.current_index
        /\ dialog' = r.tab.dialog
        /\ selected' = selection
        /\ ct_op' = "_load_citations"
        /\ ct_outcome' = r.outcome
        /\ UNCHANGED <<disk, outside_ct>>

PrevCitation ==
  LET r == prev_citation(TheTab)
  IN  /\ current_index' = r.tab.current_index
      /\ ct_op' = "_prev_citation"
      /\ ct_outcome' = r.outcome
      /\ UNCHANGED <<disk, citations, dialog, selected, outside_ct>>

NextCitation ==
  LET r == next_citation(TheTab)
  IN  /\ current_index' = r.tab.current_index
      /\ ct_op' = "_next_citation"
      /\ ct_outcome' = r.outcome
      /\ UNCHANGED <<disk, citations, dialog, selected, outside_ct>>

\* one dialog at a time
AnnotateCurrent ==
  LET r == annotate_current(TheTab)
  IN  /\ ~dialog.open
      /\ dialog' = r.tab.dialog
      /\ ct_op' = "_annotate_current"
      /\ ct_outcome' = r.outcome
      /\ UNCHANGED <<disk, citations, current_index, selected, outside_ct>>

\* the Save button of the dialog; text that is not JSON is refused
DialogSave ==
  /\ dialog.open
  /\ \/ \E annotations \in AnnotationPool :
          LET r == dialog_save(TheTab, disk, annotations)
          IN  /\ citations' = r.tab.citations
              /\ dialog' = r.tab.dialog
              /\ disk' = r.disk
              /\ ct_outcome' = r.outcome
     \/ /\ ct_outcome' = "Invalid JSON"
        /\ UNCHANGED <<citations, dialog, disk>>
  /\ ct_op' = "AnnotationDialog._save"
  /\ UNCHANGED <<current_index, selected, outside_ct>>

\* the Cancel button of the dialog
DialogCancel ==
  /\ dialog.open
  /\ dialog' = NoDialog
  /\ ct_op' = "AnnotationDialog.destroy"
  /\ ct_outcome' = "closed"
  /\ UNCHANGED <<disk, citations, current_index, selected, outside_ct>>

NextCitations ==
  \/ LoadCitations
  \/ PrevCitation
  \/ NextCitation
  \/ AnnotateCurrent
  \/ DialogSave
  \/ DialogCancel

SpecCitations == InitCitations /\ [][NextCitations]_vars


(***************************************************************************)
(* _is_chapter_heading and _calculate_heading_score on one block, as       *)
(* _get_chapter_candidates calls them, under any ProcessingConfig          *)
(* chapter_keywords, and the confidence detect_chapters derives.           *)
(***************************************************************************)
\* keywords a configuration is made of: the empty string, "Intro", "M", "1"
KeywordPool == {<<>>, T_Intro, <<"M">>, <<"1">>}

KeywordConfigs == {chapter_keywords} \cup SUBSET KeywordPool

\* the blocks with "lines"
ScoredBlocks ==
  {bChapterOne, bPlain, bXiv, bChapter1, bReferences, bIIII, bAppendix, bBlank,
   bSeeAppendix, bIntro, bMMMDCCCLXXXVIII}

InitScore ==
  /\ ScoreIdle
  /\ PdfIdle
  /\ ImageIdle
  /\ OcrIdle
  /\ AppIdle
  /\ NavIdle
  /\ CitationIdle

CalculateHeadingScore ==
  \E keywords \in KeywordConfigs, block \in ScoredBlocks :
    \E text \in {BlockText(block)} :
      \E score \in {calculate_heading_score_with(keywords, text, block)} :
        /\ sc_keywords' = keywords
        /\ sc_block' = block
        /\ sc_gate' = is_chapter_heading_with(keywords, text, block)
        /\ sc_score' = score
        /\ sc_confidence' = (score * ConfDen) \div (2 * ScoreDivisor)
        /\ sc_op' = "_calculate_heading_score"
        /\ UNCHANGED outside_sc

NextScore == CalculateHeadingScore

SpecScore == InitScore /\ [][NextScore]_vars


(***************************************************************************)
(* Vocabulary of the properties.                                           *)
(***************************************************************************)
NumPages == Len(document.pages)

\* the last operation ran the block-based detector and returned its chapters
HeuristicReturned ==
  /\ op \in {"detect_chapters", "TOCExtractor.extract"}
  /\ outcome = "returned"
  /\ "detect_chapters" \in Range_of(calls)

\* first and last page (inclusive) of the i-th returned chapter
FirstPage(i) ==
  IF op \in {"TOCExtractor.extract", "process_chapters"}
  THEN result[i].page_range.start
  ELSE result[i].start_page

LastPage(i) ==
  IF op \in {"TOCExtractor.extract", "process_chapters"}
  THEN result[i].page_range.stop - 1
  ELSE result[i].end_page

PagesOf(i) == FirstPage(i)..LastPage(i)

ChaptersHolding(p) == {i \in 1..Len(result) : p \in PagesOf(i)}

\* the pages whose case-folded text holds "appendix" or "references"
MarkerPages == {p \in 0..(NumPages - 1) : MarkerIn(PageTextLower[document.pages[p + 1]])}

\* the first marker page from p on, NumPages when there is none
CutFrom(p) ==
  LET later == {q \in MarkerPages : q >= p}
  IN  IF later = {} THEN NumPages
      ELSE CHOOSE q \in later : \A r \in later : q <= r

LastCandidatePage == candidates[Len(candidates)].page

(***************************************************************************)
(* C1                                                                      *)
(***************************************************************************)
\* C1, as claimed: when a document without a TOC yields at least one heading
\* candidate, every page 0..N-1 lies in exactly one returned chapter.
C1_FullCoverage ==
  (HeuristicReturned /\ document.toc = <<>> /\ candidates # <<>>) =>
     \A p \in 0..(NumPages - 1) : Cardinality(ChaptersHolding(p)) = 1

\* C1, amended: the returned chapters hold exactly the pages from the first
\* candidate's page up to the page before the cut (the first page, from the last
\* candidate's page on, whose text holds "appendix" or "references"; the end
\* of the document when there is none), each of them once; no other page of
\* the document, and nothing outside it, lies in a chapter.
C1_CoveredSpan ==
  (HeuristicReturned /\ document.toc = <<>> /\ candidates # <<>>) =>
     /\ \A p \in 0..(NumPages - 1) :
          Cardinality(ChaptersHolding(p)) =
            IF candidates[1].page <= p /\ p < CutFrom(LastCandidatePage) THEN 1 ELSE 0
     /\ \A i \in 1..Len(result) : PagesOf(i) \subseteq 0..(NumPages - 1)

\* C1 witness: chapters returned with pages before the first candidate and a cut
C1_Witness ==
  /\ HeuristicReturned /\ document.toc = <<>>
  /\ Len(candidates) >= 2
  /\ candidates[1].page > 0
  /\ CutFrom(LastCandidatePage) < NumPages
  /\ CutFrom(LastCandidatePage) > LastCandidatePage

(***************************************************************************)
(* C2                                                                      *)
(***************************************************************************)
\* C2: from a non-empty TOC extract_toc returns one chapter per entry, in TOC
\* order: chapter i starts on entry i's page (0-based), ends on the page before
\* entry i+1's start, the last one on page N-1, each with confidence 1.0.
C2_TocAdjacency ==
  (op = "extract_toc" /\ outcome = "returned" /\ document.toc # <<>>) =>
     /\ Len(result) = Len(document.toc)
     /\ \A i \in 1..Len(result) :
          /\ result[i].title = document.toc[i][2]
          /\ result[i].start_page = document.toc[i][3] - 1
          /\ i < Len(result) => result[i].end_page = (document.toc[i + 1][3] - 1) - 1
          /\ i = Len(result) => result[i].end_page = NumPages - 1
          /\ result[i].confidence = ConfDen

\* C2 witness: extract_toc returned chapters of an outline of two entries
C2_Witness ==
  /\ op = "extract_toc" /\ outcome = "returned"
  /\ Len(document.toc) >= 2
  /\ Len(result) >= 2
  /\ document.toc[1][3] < document.toc[2][3]


(***************************************************************************)
(* C3                                                                      *)
(***************************************************************************)
Detectors == {"detect_chapters", "_detect_chapters_heuristically"}

\* C3: the callers try the TOC first and never run a detector beside it: a
\* detector is invoked only second, after extract_toc returned an empty list;
\* with a non-empty TOC no detector is invoked and every returned chapter is the
\* TOC's entry at its position, with confidence 1.0.
C3_TocFirstExclusive ==
  (op \in {"TOCExtractor.extract", "process_chapters", "load_chapters"}) =>
     /\ calls # <<>> => calls[1] = "extract_toc"
     /\ calls = <<>> => (fault.kind = "open" /\ result = <<>>)
     /\ \A i \in 1..Len(calls) :
          calls[i] \in Detectors =>
             /\ i = 2
             /\ Len(calls) = 2
             /\ document.toc = <<>>
             /\ fault.kind # "get_toc"
     /\ document.toc # <<>> =>
          /\ fault.kind # "open" => calls = <<"extract_toc">>
          /\ Len(result) <= Len(document.toc)
          /\ \A i \in 1..Len(result) :
               /\ result[i].confidence = ConfDen
               /\ result[i].title = document.toc[i][2]
               /\ FirstPage(i) = document.toc[i][3] - 1

\* C3 witness: TOCExtractor.extract returned the TOC's chapters of a document
\* whose pages hold heading candidates
C3_Witness ==
  /\ op = "TOCExtractor.extract" /\ outcome = "returned"
  /\ document.toc # <<>>
  /\ Len(result) = Len(document.toc)
  /\ get_chapter_candidates(document, NoFault) # <<>>

(***************************************************************************)
(* C4                                                                      *)
(***************************************************************************)
\* C4: in every returned chapter list the chapters are in increasing (here:
\* non-decreasing) start-page order and no two of them share a page.
C4_OrderedDisjoint ==
  (op \in {"extract_toc", "detect_chapters", "TOCExtractor.extract", "process_chapters"}
     /\ outcome = "returned") =>
     \A i, j \in 1..Len(result) :
        i < j => /\ FirstPage(i) <= FirstPage(j)
                 /\ PagesOf(i) \cap PagesOf(j) = {}

(***************************************************************************)
(* C5                                                                      *)
(***************************************************************************)
\* C5, as claimed: every chapter of the heuristic detection has
\* 0 <= start_page <= end_page <= N-1.
C5_ValidRange ==
  HeuristicReturned =>
     \A i \in 1..Len(result) :
        /\ 0 <= FirstPage(i)
        /\ FirstPage(i) <= LastPage(i)
        /\ LastPage(i) <= NumPages - 1

\* C5, amended: every chapter of the heuristic detection has
\* 0 <= start_page <= N-1 and start_page - 1 <= end_page <= N-1; its range is
\* empty (end_page = start_page - 1, which is -1 on page 0) exactly when the
\* next candidate lies on the same page or, for the last candidate, when its
\* own page holds "appendix" or "references".
C5_SpanOrEmpty ==
  HeuristicReturned =>
     \A i \in 1..Len(result) :
        /\ 0 <= FirstPage(i)
        /\ FirstPage(i) <= NumPages - 1
        /\ FirstPage(i) - 1 <= LastPage(i)
        /\ LastPage(i) <= NumPages - 1
        /\ (LastPage(i) = FirstPage(i) - 1) <=>
             IF i < Len(candidates)
             THEN candidates[i + 1].page = candidates[i].page
             ELSE candidates[i].page \in MarkerPages

\* C5 witness: two candidates on page 0 and the last candidate on a marker page
C5_Witness ==
  /\ HeuristicReturned
  /\ \E i \in 1..Len(result) : LastPage(i) = -1
  /\ Len(candidates) >= 2
  /\ LastCandidatePage \in MarkerPages
  /\ LastPage(Len(result)) = LastCandidatePage - 1

(***************************************************************************)
(* C6                                                                      *)
(***************************************************************************)
\* C6: the last candidate's chapter ends on the page before the first page,
\* from the candidate's own page on, whose case-folded text holds "appendix"
\* or "references", and on page N-1 when there is none; the pages are read in
\* order up to that page and no further (a page text that cannot be read fails
\* the detection exactly when it lies in that stretch).  Candidates on pages
\* 5, 20, 45 of 60 pages with "appendix" on page 46 give [5,19], [20,44], [45,45].
C6_LastChapterEnd ==
  /\ (HeuristicReturned /\ candidates # <<>>) =>
        LastPage(Len(result)) = CutFrom(LastCandidatePage) - 1
  /\ (op \in {"detect_chapters", "TOCExtractor.extract"}
        /\ "detect_chapters" \in Range_of(calls)
        /\ candidates # <<>>
        /\ fault.kind = "get_text") =>
        (outcome # "returned" <=>
           (LastCandidatePage <= fault.page /\ fault.page <= CutFrom(LastCandidatePage)))
  /\ (HeuristicReturned /\ candidates # <<>> /\ document = ExampleDocument) =>
        [i \in 1..Len(result) |-> <<FirstPage(i), LastPage(i)>>]
          = << <<5, 19>>, <<20, 44>>, <<45, 45>> >>

\* C6 witness: the detection returned the chapters of the 60-page example
C6_Witness ==
  /\ HeuristicReturned
  /\ document = ExampleDocument
  /\ Len(result) = 3
  /\ CutFrom(LastCandidatePage) = 46

(***************************************************************************)
(* C7                                                                      *)
(***************************************************************************)
\* C7: the chapter of a candidate that is not the last starts on the
\* candidate's page and ends on the page before the next candidate's page;
\* candidates on the same page give end = start - 1 and stay separate chapters.
C7_InteriorEnds ==
  HeuristicReturned =>
     /\ Len(result) = Len(candidates)
     /\ \A i \in 1..(Len(candidates) - 1) :
          /\ FirstPage(i) = candidates[i].page
          /\ LastPage(i) = candidates[i + 1].page - 1
          /\ candidates[i + 1].page = candidates[i].page => LastPage(i) = FirstPage(i) - 1

\* C7 witness: chapters returned for two candidates of one page
C7_Witness ==
  /\ HeuristicReturned
  /\ \E i \in 1..(Len(candidates) - 1) :
        /\ candidates[i + 1].page = candidates[i].page
        /\ LastPage(i) = FirstPage(i) - 1
        /\ FirstPage(i + 1) = FirstPage(i)

(***************************************************************************)
(* C8                                                                      *)
(***************************************************************************)
\* detect_chapters ran on an opened document
DetectionRan ==
  /\ op \in {"detect_chapters", "TOCExtractor.extract"}
  /\ "detect_chapters" \in Range_of(calls)
  /\ op = "detect_chapters" => doc = "open"

\* C8: detect_chapters returns one chapter per candidate, in candidate order,
\* titled with the candidate's text and starting on its page; without
\* candidates it returns the empty list and raises nothing.
C8_OnePerCandidate ==
  DetectionRan =>
     /\ outcome = "returned" =>
          /\ Len(result) = Len(candidates)
          /\ \A i \in 1..Len(result) :
               /\ result[i].title = candidates[i].text
               /\ FirstPage(i) = candidates[i].page
     /\ candidates = <<>> => (outcome = "returned" /\ result = <<>>)

\* C8 witness: chapters returned for several candidates, one with an empty text
C8_Witness ==
  /\ DetectionRan /\ outcome = "returned"
  /\ Len(result) >= 3
  /\ \E i \in 1..Len(result) : result[i].title = <<>>
  /\ \E i \in 1..Len(result) : result[i].title = T_Chapter1


(***************************************************************************)
(* C9, C10                                                                 *)
(***************************************************************************)
\* the Roman numeral of n
Repeated(ch, n) == [i \in 1..n |-> ch]

RomanDigit(n, one, five, ten) ==
  IF n = 9 THEN <<one, ten>>
  ELSE IF n = 4 THEN <<one, five>>
  ELSE IF n >= 5 THEN <<five>> \o Repeated(one, n - 5)
  ELSE Repeated(one, n)

ToRoman(n) ==
  Repeated("M", n \div 1000)
    \o RomanDigit((n \div 100) % 10, "C", "D", "M")
    \o RomanDigit((n \div 10) % 10, "X", "L", "C")
    \o RomanDigit(n % 10, "I", "V", "X")

\* the strings the pattern is written to match in full: the numerals of 0
\* (the empty string) to 4999, in any letter case
RomanNumerals == {ToRoman(n) : n \in 0..4999}

\* the three conditions of the gate, on a text block
GateCondition(block) ==
  \E text \in {BlockText(block)} :
     \/ \E upper \in {Upper(text)} : upper \in RomanNumerals
     \/ \E kw \in chapter_keywords : Contains(text, kw)
     \/ /\ block.lines # <<>>
        /\ block.lines[1] # <<>>
        /\ block.lines[1][1].size > 12

\* per known page: the text blocks that meet a gate condition, and the text
\* blocks whose text is empty or whitespace only
ExpectedHeadings ==
  [page \in KnownPages |->
     {b \in 1..Len(page) : page[b].hasLines /\ GateCondition(page[b])}]

BlankBlocks ==
  [page \in KnownPages |->
     {b \in 1..Len(page) :
        /\ page[b].hasLines
        /\ \A l \in 1..Len(page[b].lines) : \A k \in 1..Len(page[b].lines[l]) :
              \A c \in 1..Len(page[b].lines[l][k].text) :
                 page[b].lines[l][k].text[c] \in Whitespace}]

\* the scan went through the pages of the document
CandidatesCollected ==
  /\ op \in {"detect_chapters", "TOCExtractor.extract", "load_chapters"}
  /\ "detect_chapters" \in Range_of(calls)
  /\ op = "detect_chapters" => doc = "open"
  /\ fault.kind # "get_text_dict"

IsCandidate(page_num, block) ==
  \E i \in 1..Len(candidates) :
     candidates[i].page = page_num /\ candidates[i].bbox = block.bbox

\* C9: a text block passes the gate, and becomes a candidate, if and only if
\* its trimmed text is a Roman numeral in full (any case), or its text holds a
\* chapter keyword, or the font size of the first span of its first line
\* exceeds 12.
C9_GateIffAnyCondition ==
  CandidatesCollected =>
     \A p \in 1..NumPages :
        LET page == document.pages[p]
        IN  \A b \in 1..Len(page) :
               page[b].hasLines =>
                  (IsCandidate(p - 1, page[b]) <=> b \in ExpectedHeadings[page])

\* C9 witness: a scan that admitted a block by its font size alone and turned
\* down a 12pt block
C9_Witness ==
  /\ CandidatesCollected
  /\ \E p \in 1..NumPages : document.pages[p] = PageManyHeadings /\ IsCandidate(p - 1, bIntro)
  /\ \E p \in 1..NumPages : document.pages[p] = PageHeading /\ ~IsCandidate(p - 1, bPlain)

\* C10: a text block whose text is empty or whitespace only never becomes a
\* heading candidate.
C10_NoBlankHeading ==
  CandidatesCollected =>
     \A p \in 1..NumPages :
        LET page == document.pages[p]
        IN  \A b \in BlankBlocks[page] : ~IsCandidate(p - 1, page[b])


(***************************************************************************)
(* C11                                                                     *)
(***************************************************************************)
\* the weights, in half points, a text block earns
WeightsEarned(block) ==
  TheOne({
      (IF \E kw \in chapter_keywords : Contains(text, kw) THEN 4 ELSE 0)
    + (IF block.lines # <<>> /\ block.lines[1] # <<>> /\ block.lines[1][1].size > 14
       THEN 2 ELSE 0)
    + (IF text = Upper(text) /\ text # Lower(text) THEN 1 ELSE 0)
    + (IF Len(text) \in 10..100 THEN 1 ELSE 0)
    + (IF \E upper \in {Upper(text)} : upper \in RomanNumerals THEN 5 ELSE 0) :
        text \in {BlockText(block)}})

ExpectedScore ==
  [page \in KnownPages |->
     [b \in 1..Len(page) |-> IF page[b].hasLines THEN WeightsEarned(page[b]) ELSE 0]]

\* the block of its page the i-th candidate was made from
SourceBlock(i) ==
  LET page == document.pages[candidates[i].page + 1]
  IN  CHOOSE b \in 1..Len(page) : page[b].bbox = candidates[i].bbox

ScoreOf(page_num, block) ==
  {candidates[i].score : i \in {k \in 1..Len(candidates) :
      candidates[k].page = page_num /\ candidates[k].bbox = block.bbox}}

\* C11: the score of every candidate is the sum of the weights whose condition
\* holds on its block: 2.0 for a keyword in the text, 1.0 for a first span
\* larger than 14, 0.5 for an uppercase text, 0.5 for a length of 10 to 100,
\* 2.5 for a Roman numeral; "CHAPTER ONE" at 16pt scores 4.0 and "xiv" at
\* 10pt scores 2.5.
C11_ScoreIsSumOfWeights ==
  CandidatesCollected =>
     /\ \A i \in 1..Len(candidates) :
           candidates[i].score =
             ExpectedScore[document.pages[candidates[i].page + 1]][SourceBlock(i)]
     /\ \A p \in 1..NumPages :
           /\ document.pages[p] = PageHeading => ScoreOf(p - 1, bChapterOne) = {8}
           /\ document.pages[p] = PageManyHeadings => ScoreOf(p - 1, bXiv) = {5}

\* C11 witness: a scan that scored "CHAPTER ONE" at 16pt, "xiv" at 10pt and
\* the ten characters of "Appendix A" at 12pt
C11_Witness ==
  /\ CandidatesCollected
  /\ \E p \in 1..NumPages : ScoreOf(p - 1, bChapterOne) = {8}
  /\ \E p \in 1..NumPages : ScoreOf(p - 1, bXiv) = {5}
  /\ \E p \in 1..NumPages :
        document.pages[p] = PageAppendix /\ ScoreOf(p - 1, bAppendix) = {5}


(***************************************************************************)
(* C12                                                                     *)
(***************************************************************************)
\* C12: the confidence of every chapter of heuristic detection is its
\* candidate's score divided by 4.0 (confidence / ConfDen = (score / 2) / 4),
\* without a cap: a score of 4.0 gives 1.0, a score of 2.5 gives 0.625 and a
\* score above 4.0 gives a confidence above 1.0.
C12_ConfidenceUncapped ==
  HeuristicReturned =>
     \A i \in 1..Len(result) :
        /\ result[i].confidence * 2 * 4 = candidates[i].score * ConfDen
        /\ candidates[i].score = 8 => result[i].confidence = ConfDen
        /\ candidates[i].score = 5 => result[i].confidence * 1000 = 625 * ConfDen
        /\ candidates[i].score > 8 => result[i].confidence > ConfDen

\* C12 witness: chapters returned with confidence 1.0, 0.625 and above 1.0
C12_Witness ==
  /\ HeuristicReturned
  /\ \E i \in 1..Len(result) : candidates[i].score = 8 /\ result[i].confidence = ConfDen
  /\ \E i \in 1..Len(result) :
        candidates[i].score = 5 /\ result[i].confidence * 1000 = 625 * ConfDen
  /\ \E i \in 1..Len(result) : candidates[i].score > 8 /\ result[i].confidence > ConfDen


(***************************************************************************)
(* C13                                                                     *)
(***************************************************************************)
\* the number of text blocks of the pages 1..p that meet a gate condition
RECURSIVE GatedUpTo(_)
GatedUpTo(p) ==
  IF p = 0 THEN 0
  ELSE GatedUpTo(p - 1) + Cardinality(ExpectedHeadings[document.pages[p]])

\* C13: the candidate list holds exactly the text blocks that pass the gate,
\* each once and with its own text, several of one page included, ordered by
\* page index and, within a page, by the page's block order.
C13_CandidatesInOrder ==
  CandidatesCollected =>
     /\ Len(candidates) = GatedUpTo(NumPages)
     /\ \A i \in 1..Len(candidates) :
           LET page == document.pages[candidates[i].page + 1]
           IN  /\ SourceBlock(i) \in ExpectedHeadings[page]
               /\ candidates[i].text = BlockText(page[SourceBlock(i)])
     /\ \A i \in 1..(Len(candidates) - 1) :
           \/ candidates[i].page < candidates[i + 1].page
           \/ /\ candidates[i].page = candidates[i + 1].page
              /\ SourceBlock(i) < SourceBlock(i + 1)

\* C13 witness: a scan that kept several blocks of one page, in block order,
\* before a block of a later page, and left out the blocks that fail the gate
C13_Witness ==
  /\ CandidatesCollected
  /\ Len(candidates) >= 6
  /\ \E i \in 1..(Len(candidates) - 1) :
        /\ candidates[i].page = candidates[i + 1].page
        /\ candidates[i].bbox = bChapter1.bbox
        /\ candidates[i + 1].bbox = bIntro.bbox
  /\ \E i \in 1..(Len(candidates) - 1) : candidates[i].page < candidates[i + 1].page
  /\ \E p \in 1..NumPages : document.pages[p] = PageHeading /\ ~IsCandidate(p - 1, bPlain)


(***************************************************************************)
(* C14                                                                     *)
(***************************************************************************)
\* the scan ran and reading the blocks of one page failed
ScanHitBadPage ==
  /\ op \in {"detect_chapters", "TOCExtractor.extract", "load_chapters"}
  /\ "detect_chapters" \in Range_of(calls)
  /\ fault.kind = "get_text_dict"

\* C14: when reading the blocks of one page fails during the scan, only that
\* page is skipped: the gated text blocks of every other page are still
\* candidates, and none of the failed page is.
C14_PageFailureIsolated ==
  ScanHitBadPage =>
     \A p \in 1..NumPages :
        LET page == document.pages[p]
        IN  \A b \in 1..Len(page) :
               IsCandidate(p - 1, page[b]) <=>
                  (p - 1 # fault.page /\ b \in ExpectedHeadings[page])


(***************************************************************************)
(* C15                                                                     *)
(***************************************************************************)
\* chapters were built from the entries of the outline
BuiltFromToc ==
  /\ op \in {"extract_toc", "TOCExtractor.extract"}
  /\ op = "extract_toc" => doc = "open"
  /\ fault = NoFault
  /\ document.toc # <<>>

\* C15: for any outline, unordered or with missing (-1) pages included,
\* building the chapters from it raises nothing and the start and end page of
\* every chapter lie in 0..N-1.
C15_TocClamped ==
  BuiltFromToc =>
     /\ outcome = "returned"
     /\ Len(result) = Len(document.toc)
     /\ \A i \in 1..Len(result) :
           /\ FirstPage(i) \in 0..(NumPages - 1)
           /\ LastPage(i) \in 0..(NumPages - 1)


(***************************************************************************)
(* C16                                                                     *)
(***************************************************************************)
DocumentOperations ==
  {"get_total_pages", "get_page_text", "convert_page_to_image",
   "extract_toc", "detect_chapters"}

\* C16: a document operation of PDFProcessor invoked while the document is
\* not opened raises PDFProcessingError, returns nothing and leaves the
\* processor as it was; constructing a PDFProcessor for a file that does not
\* exist raises PDFProcessingError.
C16_UnopenedFails ==
  [][/\ (doc # "open" /\ op' \in DocumentOperations) =>
          /\ outcome' = "PDFProcessingError"
          /\ result' = <<>>
          /\ doc' = doc
          /\ document' = document
     /\ (op' = "__init__" /\ fault'.kind = "not_found") =>
          /\ outcome' = "PDFProcessingError"
          /\ result' = <<>>
          /\ doc' = doc]_vars

\* C16 witness: get_page_text was refused on a processor that is not opened
C16_Witness ==
  /\ op = "get_page_text"
  /\ doc = "None"
  /\ outcome = "PDFProcessingError"
  /\ result = <<>>


(***************************************************************************)
(* C17                                                                     *)
(***************************************************************************)
\* C17: when the TOC extraction itself fails, TOCExtractor.extract raises
\* PDFProcessingError and process_chapters raises ChapterExtractionError;
\* neither runs a heuristic detection nor returns chapters.
C17_TocFailureIsTyped ==
  (op \in {"TOCExtractor.extract", "process_chapters"} /\ fault.kind = "get_toc") =>
     /\ op = "TOCExtractor.extract" => outcome = "PDFProcessingError"
     /\ op = "process_chapters" => outcome = "ChapterExtractionError"
     /\ calls = <<"extract_toc">>
     /\ result = <<>>

\* C17 witness: process_chapters failed on get_toc() for a document whose
\* pages a heuristic detection would have split into chapters
C17_Witness ==
  /\ op = "process_chapters"
  /\ fault.kind = "get_toc"
  /\ outcome = "ChapterExtractionError"
  /\ detect_chapters_heuristically(document, NoFault) # <<>>


(***************************************************************************)
(* C18                                                                     *)
(***************************************************************************)
\* C18: a Chapter converted with to_dict and built again with page_range =
\* range(start_page, end_page + 1) has the same title, start page, inclusive
\* end page and confidence, an empty page range included, and converting it
\* again gives the same dictionary.
C18_RoundTrip ==
  op = "to_dict" =>
     LET r == result[1]
     IN  /\ r.rebuilt.title = r.chapter.title
         /\ r.rebuilt.page_range.start = r.chapter.page_range.start
         /\ r.rebuilt.page_range.stop - 1 = r.chapter.page_range.stop - 1
         /\ r.rebuilt.confidence = r.chapter.confidence
         /\ r.dict.start_page = r.chapter.page_range.start
         /\ r.dict.end_page = r.chapter.page_range.stop - 1
         /\ r.dict_again = r.dict

\* C18 witness: the round trip of a chapter with an empty page range, a
\* confidence of 0.625 and no metadata
C18_Witness ==
  /\ op = "to_dict"
  /\ result[1].chapter.page_range = Range(1, 1)
  /\ result[1].chapter.confidence * 1000 = 625 * ConfDen
  /\ result[1].chapter.metadata = NoMetadata
  /\ result[1].rebuilt.page_range = Range(1, 1)
  /\ result[1].dict.end_page = 0


(***************************************************************************)
(* C19                                                                     *)
(***************************************************************************)
\* the gap, in half pixels, between the k-th sorted block and the next one
Gap(k) == text_blocks[k + 1].coordinates[2] - text_blocks[k].coordinates[4]

\* the number of blocks in the first g groups
RECURSIVE BlocksThrough(_)
BlocksThrough(g) == IF g = 0 THEN 0 ELSE BlocksThrough(g - 1) + Len(groups[g])

\* the group that holds the k-th sorted block
GroupOf(k) ==
  CHOOSE g \in 1..Len(groups) : BlocksThrough(g - 1) < k /\ k <= BlocksThrough(g)

\* C19: _group_text_blocks walks the blocks sorted by top; a block starts a
\* new group exactly when its top is at least grouping_threshold below the
\* bottom of the block before it (a gap equal to the threshold splits), and
\* otherwise joins the current group.  So gaps that are all below the
\* threshold give one group, and one gap of twice the threshold among gaps
\* below it gives two.
C19_SplitAtThreshold ==
  ip_op # "none" =>
     /\ \A k \in 1..(Len(text_blocks) - 1) :
           text_blocks[k].coordinates[2] <= text_blocks[k + 1].coordinates[2]
     /\ Flatten(groups) = text_blocks
     /\ \A g \in 1..Len(groups) : groups[g] # <<>>
     /\ \A k \in 1..(Len(text_blocks) - 1) :
           (GroupOf(k + 1) # GroupOf(k)) <=> (Gap(k) >= 2 * grouping_threshold)
     /\ (/\ text_blocks # <<>>
         /\ \A k \in 1..(Len(text_blocks) - 1) : Gap(k) < 2 * grouping_threshold)
          => Len(groups) = 1
     /\ (\E k \in 1..(Len(text_blocks) - 1) :
           /\ Gap(k) = 2 * (2 * grouping_threshold)
           /\ \A j \in 1..(Len(text_blocks) - 1) :
                 j # k => Gap(j) < 2 * grouping_threshold)
          => Len(groups) = 2

\* C19 witness: a split at a gap of exactly the threshold, then a block
\* joined at a gap of half a pixel less
C19_Witness ==
  /\ ip_op # "none"
  /\ text_blocks = <<bA, bC, bD>>
  /\ Gap(1) = 2 * grouping_threshold
  /\ Gap(2) = 2 * grouping_threshold - 1
  /\ groups = << <<bA>>, <<bC, bD>> >>


(***************************************************************************)
(* C20                                                                     *)
(***************************************************************************)
\* the union box of the merged group, in half pixels
UnionBox ==
  LET blocks == groups[merged.group]
      xs == UNION {{blocks[i].coordinates[1], blocks[i].coordinates[3]} :
                     i \in 1..Len(blocks)}
      ys == UNION {{blocks[i].coordinates[2], blocks[i].coordinates[4]} :
                     i \in 1..Len(blocks)}
  IN  [minX |-> Minimum(xs), minY |-> Minimum(ys),
       maxX |-> Maximum(xs), maxY |-> Maximum(ys)]

\* C20, as claimed: the merged box of a non-empty group is its union box
\* grown by the margin on each side and clipped to the image: x1 =
\* max(0, minX - margin), y1 = max(0, minY - margin), x2 = min(W, maxX +
\* margin), y2 = min(H, maxY + margin), so 0 <= x1, 0 <= y1, x2 <= W, y2 <= H.
C20_UnionBoxClipped ==
  ip_op = "_merge_block_coordinates" =>
     /\ merged.status = "returned"
     /\ 2 * merged.box[1] = Maximum({0, UnionBox.minX - 2 * DefaultMargin})
     /\ 2 * merged.box[2] = Maximum({0, UnionBox.minY - 2 * DefaultMargin})
     /\ 2 * merged.box[3] = Minimum({2 * image.width, UnionBox.maxX + 2 * DefaultMargin})
     /\ 2 * merged.box[4] = Minimum({2 * image.height, UnionBox.maxY + 2 * DefaultMargin})
     /\ 0 <= merged.box[1] /\ 0 <= merged.box[2]
     /\ merged.box[3] <= image.width /\ merged.box[4] <= image.height

\* the whole pixels of a coordinate: the integer next to it on the side of 0
WholePixels(v) ==
  CHOOSE t \in -500..500 :
     IF v >= 0 THEN 2 * t <= v /\ v < 2 * t + 2
     ELSE 2 * t - 2 < v /\ v <= 2 * t

\* C20, amended: the merged box is the union box with each of minX, minY,
\* maxX, maxY cut to whole pixels (towards zero), then grown by the margin
\* and clipped to the image; so 0 <= x1, 0 <= y1, x2 <= W, y2 <= H.
C20_WholePixelBoxClipped ==
  ip_op = "_merge_block_coordinates" =>
     /\ merged.status = "returned"
     /\ merged.box[1] = Maximum({0, WholePixels(UnionBox.minX) - DefaultMargin})
     /\ merged.box[2] = Maximum({0, WholePixels(UnionBox.minY) - DefaultMargin})
     /\ merged.box[3] = Minimum({image.width, WholePixels(UnionBox.maxX) + DefaultMargin})
     /\ merged.box[4] = Minimum({image.height, WholePixels(UnionBox.maxY) + DefaultMargin})
     /\ 0 <= merged.box[1] /\ 0 <= merged.box[2]
     /\ merged.box[3] <= image.width /\ merged.box[4] <= image.height

\* C20 witness: the box of the block (-1.5, 110.5, 199.5, 130) on a 300 x 120
\* image: clipped at the left and at the bottom, cut to whole pixels at the
\* top and at the right
C20_Witness ==
  /\ ip_op = "_merge_block_coordinates"
  /\ groups[merged.group] = <<bD>>
  /\ image = [width |-> 300, height |-> 120]
  /\ merged.box = <<0, 100, 209, 120>>


(***************************************************************************)
(* C21                                                                     *)
(***************************************************************************)
\* C21: an invocation of detect_paragraphs_with_metadata for chapter N that
\* finds G groups returns G paragraphs in the order of the groups (top to
\* bottom), the k-th named chapter{N}_paragraph_{k}.png, k counted from 1 in
\* every invocation; the filenames of one invocation differ from each other.
C21_ParagraphsNumbered ==
  ip_op = "detect_paragraphs_with_metadata" =>
     /\ Len(paragraphs) = Len(groups)
     /\ \A k \in 1..Len(paragraphs) :
           /\ paragraphs[k].filename = <<"chapter", paragraph_chapter, "_paragraph_", k, ".png">>
           /\ paragraphs[k].bbox =
                merge_block_coordinates(groups[k], image, DefaultMargin).value
     /\ \A j, k \in 1..Len(paragraphs) :
           j # k => paragraphs[j].filename # paragraphs[k].filename
     /\ \A k \in 1..(Len(groups) - 1) :
           groups[k][1].coordinates[2] <= groups[k + 1][1].coordinates[2]

\* C21 witness: an invocation for chapter 2 that found three groups
C21_Witness ==
  /\ ip_op = "detect_paragraphs_with_metadata"
  /\ paragraph_chapter = 2
  /\ Len(groups) = 3
  /\ Len(paragraphs) = 3
  /\ paragraphs[1].filename = <<"chapter", 2, "_paragraph_", 1, ".png">>
  /\ paragraphs[3].filename = <<"chapter", 2, "_paragraph_", 3, ".png">>


(***************************************************************************)
(* C22                                                                     *)
(***************************************************************************)
\* the positions of the double quotes of the text read, in ascending order
QuotePositions ==
  LET at == {i \in 1..Len(ocr_text) : ocr_text[i] = Quote}
  IN  [k \in 1..Cardinality(at) |->
         CHOOSE i \in at : Cardinality({j \in at : j <= i}) = k]

\* the successive pairs of quotes, from the i-th quote on, that do not
\* overlap and enclose at least one character
RECURSIVE QuotePairs(_)
QuotePairs(i) ==
  IF i + 1 > Len(QuotePositions) THEN <<>>
  ELSE IF QuotePositions[i + 1] - QuotePositions[i] > 1
  THEN << <<QuotePositions[i], QuotePositions[i + 1]>> >> \o QuotePairs(i + 2)
  ELSE QuotePairs(i + 1)

\* C22: the quotes list holds, from left to right, the text between each
\* successive non-overlapping pair of double quotes that enclose at least
\* one character, verbatim and with confidence 0.9; two quoted substrings
\* give two quotes, a text without quotes gives the empty list.
C22_QuotesBetweenPairs ==
  citations_found # <<>> =>
     LET quotes == citations_found[1].quotes
     IN  /\ Len(quotes) = Len(QuotePairs(1))
         /\ \A k \in 1..Len(quotes) :
               /\ quotes[k].quote_text =
                    SubSeq(ocr_text, QuotePairs(1)[k][1] + 1, QuotePairs(1)[k][2] - 1)
               /\ quotes[k].quote_text # <<>>
               /\ quotes[k].confidence * 10 = 9 * ConfDen
         /\ Len(QuotePositions) = 0 => quotes = <<>>
         /\ (/\ Len(QuotePositions) = 4
             /\ QuotePositions[2] - QuotePositions[1] > 1
             /\ QuotePositions[4] - QuotePositions[3] > 1) => Len(quotes) = 2

\* C22 witness: the two quotes of a text made of two quoted substrings
C22_Witness ==
  /\ ocr_text = <<Quote, "a", Quote, Quote, "a", Quote>>
  /\ citations_found # <<>>
  /\ Len(citations_found[1].quotes) = 2
  /\ citations_found[1].quotes[1].quote_text = <<"a">>
  /\ citations_found[1].quotes[2].quote_text = <<"a">>


(***************************************************************************)
(* C23                                                                     *)
(***************************************************************************)
\* _detect_chapters_heuristically went through a document without a TOC
HeuristicsScanned ==
  /\ op = "process_chapters"
  /\ outcome = "returned"
  /\ document.toc = <<>>
  /\ fault = NoFault

\* the pages whose text holds "Chapter"
ChapterPages ==
  {p \in 0..(NumPages - 1) :
     Contains(PageText[document.pages[p + 1]], <<"C","h","a","p","t","e","r">>)}

\* the k-th of them, NumPages after the last
ChapterPage(k) ==
  IF k > Cardinality(ChapterPages) THEN NumPages
  ELSE CHOOSE p \in ChapterPages : Cardinality({q \in ChapterPages : q <= p}) = k

HeuristicsFailed ==
  /\ op = "process_chapters"
  /\ document.toc = <<>>
  /\ fault.kind = "get_text"
  /\ fault.page \in 0..(NumPages - 1)

\* C24: when reading a page fails during the heuristic scan, the chapters
\* closed so far are dropped and process_chapters returns an empty list
\* without raising.
C24_FailedScanIsEmpty ==
  HeuristicsFailed => outcome = "returned" /\ result = <<>>

\* C24 witness: the read of page 2 fails after a chapter was closed on page 1
C24_Witness ==
  /\ HeuristicsFailed
  /\ fault.page = 2
  /\ {0, 1} \subseteq ChapterPages
  /\ calls = <<"extract_toc", "_detect_chapters_heuristically">>
  /\ outcome = "returned"
  /\ result = <<>>


(***************************************************************************)
(* C25                                                                     *)
(***************************************************************************)
\* how often block b occurs in a list
Occurrences(b, blocks) == Cardinality({i \in 1..Len(blocks) : blocks[i] = b})

\* the adjacent pairs of a list that are at least the threshold apart
WideGaps(blocks) ==
  {k \in 1..(Len(blocks) - 1) :
     blocks[k + 1].coordinates[2] - blocks[k].coordinates[4] >= 2 * grouping_threshold}

\* C25: the groups _group_text_blocks returns partition its input: no group
\* is empty, every input block is in exactly one group, the groups
\* concatenated are the input sorted by top ascending, and there are no
\* groups for an empty input and otherwise one more than there are adjacent
\* sorted pairs with a gap of at least the threshold.
C25_GroupsPartitionInput ==
  [][(ip_op = "none" /\ ip_op' = "_group_text_blocks") =>
       /\ \A g \in 1..Len(groups') : groups'[g] # <<>>
       /\ \A b \in BlockPool :
             Occurrences(b, Flatten(groups')) = Occurrences(b, text_blocks)
       /\ \A k \in 1..(Len(Flatten(groups')) - 1) :
             Flatten(groups')[k].coordinates[2] <= Flatten(groups')[k + 1].coordinates[2]
       /\ Len(groups') = IF text_blocks = <<>> THEN 0
                         ELSE 1 + Cardinality(WideGaps(Flatten(groups')))]_vars

\* C25 witness: three blocks in two groups, one wide gap between them
C25_Witness ==
  /\ ip_op = "_group_text_blocks"
  /\ groups = << <<bB, bC>>, <<bE>> >>
  /\ WideGaps(Flatten(groups)) = {2}


(***************************************************************************)
(* C26                                                                     *)
(***************************************************************************)
\* the i-th chapter handed in (from 1) can be extracted: the file opens, the
\* range holds a page, all its pages are in the document and render, and
\* the image can be written
Extractable(i) ==
  LET r == chapter_list[i].page_range
  IN  /\ app_pdf.exists
      /\ app_fault.kind # "open"
      /\ r.start < r.stop
      /\ \A pg \in r.start..(r.stop - 1) :
            /\ pg < Len(app_pdf.pages)
            /\ ~(app_fault.kind = "get_pixmap" /\ app_fault.page = pg)
      /\ NestedDir \in existing_dirs

\* the chapters whose extraction wrote a file
ExtractedChapters == {saved_files[k].chapter : k \in 1..Len(saved_files)}

\* the output paths of the chapters of S among the first n, in chapter order
RECURSIVE PathsOf(_, _)
PathsOf(S, n) ==
  IF n = 0 THEN <<>>
  ELSE IF n \in S THEN Append(PathsOf(S, n - 1), OutputPath(n - 1))
  ELSE PathsOf(S, n - 1)

C27_PageStaysInDocument ==
  [][/\ app_pdf_proc'.loaded =>
          /\ 0 <= current_page'
          /\ current_page' < app_total_pages'
          /\ current_page' % pages_per_view' = 0
     /\ (/\ nav_op' = "navigate_pages"
         /\ app_pdf_proc.loaded
         /\ LET target == current_page + direction' * pages_per_view
            IN  target < 0 \/ target >= app_total_pages)
          => current_page' = current_page]_vars

\* C27 witness: three pages per view, five pages; the display stands on
\* page 3 and a call forward found the boundary
C27_Witness ==
  /\ nav_op = "navigate_pages"
  /\ nav_result = "boundary"
  /\ direction = 1
  /\ pages_per_view = 3
  /\ app_total_pages = 5
  /\ current_page = 3

(***************************************************************************)
(* C28                                                                     *)
(***************************************************************************)
\* C28: after any sequence of _load_citations (successful or failed
\* part-way), _prev_citation, _next_citation and annotation callbacks, a
\* non-empty citations list has 0 <= current_index < len(citations), so
\* displaying or annotating the current citation never indexes out of range.
C28_IndexInRange ==
  /\ citations # <<>> => (0 <= current_index /\ current_index < Len(citations))
  /\ ct_outcome # "IndexError"


(***************************************************************************)
(* C29                                                                     *)
(***************************************************************************)
\* the .json files of the selected folder that _save_citation wrote
SavedIn(folder) ==
  {i \in 1..Len(disk[folder]) : disk[folder][i].kind = "json"}

\* C29: when a citation was annotated and written by _save_citation, a later
\* _load_citations of its folder succeeds and rebuilds the citation with the
\* text, context, confidence, annotations and metadata that were saved.
C29_SavedCitationReloads ==
  (/\ ct_op = "_load_citations"
   /\ selected \in Folders
   /\ SavedIn(selected) # {}
   /\ \A i \in 1..Len(disk[selected]) : disk[selected][i] # Invalid)
    => /\ ct_outcome = "loaded"
       /\ \A i \in SavedIn(selected) :
             /\ i <= Len(citations)
             /\ \A field \in Citation_fields :
                   citations[i][field] = disk[selected][i].data[field]


(***************************************************************************)
(* C30                                                                     *)
(***************************************************************************)
\* the block scored passes the gate by its font size only, 12 < size <= 14,
\* and shows none of the signals that score
FontSizeOnly ==
  LET text == BlockText(sc_block)
  IN  /\ sc_gate
      /\ FirstSpanSize(sc_block) > 12
      /\ FirstSpanSize(sc_block) <= 14
      /\ ~AnyKeywordIn(sc_keywords, text)
      /\ ~ROMAN_NUMERAL_PATTERN(text)
      /\ ~IsUpper(text)
      /\ ~(10 <= Len(text) /\ Len(text) <= 100)

\* C30: for every text block and every keyword configuration the heading
\* score is a multiple of 0.5 from 0 to 6.5 (13 half points), so the
\* confidence score / 4 lies in [0, 1.625]; a block that passes the gate
\* only by a font size in (12, 14] and shows no other signal scores 0 and
\* gets confidence 0.
C30_ScoreBounded ==
  sc_op = "_calculate_heading_score" =>
     /\ sc_score \in 0..13
     /\ sc_confidence * 8 = sc_score * ConfDen
     /\ 0 <= sc_confidence
     /\ sc_confidence * 1000 <= 1625 * ConfDen
     /\ FontSizeOnly => (sc_score = 0 /\ sc_confidence = 0)

\* C30 witness: "Intro" at 13pt under the default keywords passes the gate
\* and scores nothing
C30_Witness ==
  /\ sc_op = "_calculate_heading_score"
  /\ sc_keywords = chapter_keywords
  /\ sc_block = bIntro
  /\ FontSizeOnly
  /\ sc_score = 0
  /\ sc_confidence = 0

====
